---------------------------- MODULE Spec2Model ----------------------------
(***************************************************************************)
(* Model of sigma-quant-stream: the backtest engine                       *)
(* (src/lib/backtest_runner.py: cost model, signal-to-trade simulator,     *)
(* overfitting classifier, walk-forward orchestration, CLI entry point,    *)
(* performance metrics), the exchange fee schedules and round-trip cost    *)
(* (src/lib/crypto/cost_model.py), the EVT value at risk                   *)
(* (src/lib/crypto/risk_modeler.py), the exchange circuit breaker          *)
(* (src/lib/crypto/exchange_adapters.py), the market-making engine         *)
(* (src/lib/crypto/market_maker_engine.py), the idea registry              *)
(* (src/scripts/claim-idea.py) and the cost tracker                        *)
(* (src/scripts/cost-tracker.py).  Each part has its own variables and its *)
(* own specification; the variables of the other parts are idle.           *)
(*                                                                         *)
(* Numbers.  The Python code computes in binary floating point.  The model *)
(* computes in exact fixed point:                                          *)
(*   - prices (open/high/low/close, entry/exit price, mfe, mae) are whole  *)
(*     dollars;                                                            *)
(*   - money that has had a cost subtracted (rt_cost, pnl) is counted in   *)
(*     1e-4 dollars, so 17.5 dollars is 175000;                            *)
(*   - proportional fees (maker_fee, taker_fee, slippage_pct) are counted  *)
(*     in 1e-4 (0.0005 is 5), so fee * notional is in 1e-4 dollars;        *)
(*   - commission_per_side and gas_per_trade are in 1e-4 dollars,          *)
(*     slippage_ticks in 1e-2 ticks and tick_value in 1e-2 dollars, so     *)
(*     slippage_ticks * tick_value is in 1e-4 dollars;                     *)
(*   - the rounded metrics read by the classifier (sharpe_ratio, win_rate, *)
(*     max_drawdown, all round(x, 4)) are counted in 1e-4.                 *)
(* Python indexes rows from 0 and TLA+ sequences from 1: Row(d, j) is the  *)
(* row with Python index j, and every bar index in the model (i,           *)
(* entry_bar, exit_bar) is a Python index.                                 *)
(***************************************************************************)
EXTENDS Integers, Sequences, FiniteSets, TLC

VARIABLES
    \* ---- simulate_trades(df, cost_model) ----
    df,             \* the data frame: a sequence of rows [open, high, low, close, signal]
    cost_model,     \* the cost model dict (a function from its keys)
    pc,             \* "loop" | "done" (returned) | "error" (ValueError raised) | "idle"
    i,              \* the loop variable of `for i in range(1, n)`
    position,       \* 0 = flat, 1 = long, -1 = short
    entry_bar,
    entry_price,
    running_mfe,
    running_mae,
    trades,         \* the list of Trade records built so far
    \* ---- compute_round_trip_cost as a pure function ----
    cm_arg,         \* the cost model passed
    notional_arg,   \* the notional N
    factor_arg,     \* the factor k
    cost_out,       \* <<result at N, result at k*N>> once computed
    cost_pc,        \* "call" | "returned" | "idle"
    \* ---- check_overfit_flags / grade_result ----
    metrics,        \* the BacktestMetrics fields the classifier reads
    monthly_returns,\* the list of monthly pnl values (cents), in month order
    flags,          \* the AntiOverfitFlags once computed
    grade_out,      \* [passed, grade] once graded
    grade_pc,       \* "flags" | "grade" | "done" | "idle"
    \* ---- run_walk_forward(strategy_path, df, cost_model, wf_config, params) ----
    wf_config,      \* the wf_config dict (a function from its keys)
    total_bars,     \* len(df)
    params,         \* the params argument: "None", "empty" ({}) or "dict" (a non-empty dict)
    strategy,       \* what the Strategy class of strategy_path does to the objects it is given
    params_obj,     \* the content of the caller's params dict (the number of times it was mutated)
    df_obj,         \* the content of the caller's data frame (the number of times it was mutated)
    start,          \* the loop variable start
    fold_num,       \* the loop variable fold_num
    folds,          \* the list of fold dicts built so far
    report,         \* the returned dict once returned
    wf_pc,          \* "loop" | "returned" | "raised" | "idle"
    \* ---- main(argv) of the backtest CLI ----
    args,           \* the parsed arguments: what --cost-model, --params, --walk-forward and --output hold
    main_pc,        \* the statement main is at, "returned" or "idle"
    results,        \* "none" until run_backtest / run_walk_forward has returned, then "full"
    out_file,       \* the file at --output: "absent" | "old" | "partial" | "full"
    out_file_before,\* the file at --output when main was called
    stdout,         \* what was printed to stdout: "nothing" | "partial" | "full"
    ret,            \* <<>> until main returns, then <<the value it returned>>
    failed_at,      \* the stage that failed ("none" while none has)
    \* ---- compute_metrics(trades) ----
    mt_pnls,        \* [t.pnl for t in trades], whole dollars
    mt_out,         \* the BacktestMetrics returned (with raised = TRUE if a division by zero was raised instead)
    mt_pc,          \* "call" | "returned" | "idle"
    \* ---- get_fee_schedule(exchange, vip_tier) ----
    fee_exchange,   \* the exchange argument
    fee_tier,       \* the vip_tier argument
    fee_out,        \* [raised, schedule] once returned
    fee_pc,         \* "call" | "returned" | "idle"
    \* ---- CryptoRiskModeler.evt_var(returns, confidence) ----
    evt_returns,    \* the returns array as a bag: value (percent) -> number of occurrences
    evt_confidence, \* the confidence level in percent
    evt_out,        \* [raised, kind, value] once returned
    evt_pc,         \* "call" | "returned" | "idle"
    \* ---- claim_idea(pane, idea) called concurrently by several panes (src/scripts/claim-idea.py) ----
    claims_file,    \* CLAIMS_FILE on disk: [state, claims], state "absent" | "empty" | "corrupt" | "data"
    lock_holder,    \* the pane holding the flock on CLAIMS_FILE, 0 when free
    cl_idea,        \* pane -> the idea string it passes
    cl_pc,          \* pane -> the statement its call is at
    cl_data,        \* pane -> its local data["claims"]
    cl_buf,         \* pane -> [pending, claims]: what json.dump left in the buffer of its open file
    cl_retries,     \* pane -> the loop variable i of the lock retry loop
    cl_result,      \* pane -> [success, raised] the call returns with
    \* ---- the cost tracker file and the operations on it (src/scripts/cost-tracker.py) ----
    tracker,        \* the content of COST_FILE: budget, spent, remaining, breakdown, byPane, transactions, startedAt, pausedAt, pauseReason
    ct_last,        \* the last operation: its name, what it returned and whether the tracker was paused before it
    \* ---- exchange circuit breaker (exchange_adapters.py) ----
    breaker,        \* the CircuitBreaker: _state, _failure_count, _last_failure_time
    now,            \* time.monotonic()
    call_pc,        \* per coroutine: idle, or awaiting the exchange method
    admitted_in,    \* per coroutine: the state allow_request saw when it let the call through
    outcomes,       \* history: the outcomes recorded so far, oldest first
    calls_begun,    \* history: number of _call invocations begun
    cb_last,        \* history: the last step of the breaker and what it found
    \* ---- market-making engine (market_maker_engine.py) ----
    mm_params,      \* the engine's MMParameters
    mm_in,          \* the market state passed to the call
    mm_skew,        \* the InventoryAction returned by inventory_skew
    mm_out,         \* the Quote returned by generate_quotes
    mm_pc,          \* call, skew_returned or quotes_returned
    \* ---- the idea registry, one call at a time (claim-idea.py) ----
    registry,       \* the claims list of the claims file
    rg_last,        \* history: the last call, its arguments, its result and the registry it found
    \* ---- calculate_round_trip_cost (cost_model.py) ----
    rt_args,        \* the arguments of the call
    rt_out,         \* the TradeCostBreakdown returned
    rt_pc           \* call or returned

simVars == <<df, cost_model, pc, i, position, entry_bar, entry_price,
             running_mfe, running_mae, trades>>
costVars == <<cm_arg, notional_arg, factor_arg, cost_out, cost_pc>>
gradeVars == <<metrics, monthly_returns, flags, grade_out, grade_pc>>
wfVars == <<wf_config, total_bars, params, strategy, params_obj, df_obj, start, fold_num, folds, report, wf_pc>>
mainVars == <<args, main_pc, results, out_file, out_file_before, stdout, ret, failed_at>>
metricsVars == <<mt_pnls, mt_out, mt_pc>>
feeVars == <<fee_exchange, fee_tier, fee_out, fee_pc>>
evtVars == <<evt_returns, evt_confidence, evt_out, evt_pc>>
claimVars == <<claims_file, lock_holder, cl_idea, cl_pc, cl_data, cl_buf, cl_retries, cl_result>>
trackerVars == <<tracker, ct_last>>
breakerVars == <<breaker, now, call_pc, admitted_in, outcomes, calls_begun, cb_last>>
mmVars == <<mm_params, mm_in, mm_skew, mm_out, mm_pc>>
registryVars == <<registry, rg_last>>
rtVars == <<rt_args, rt_out, rt_pc>>
vars == <<simVars, costVars, gradeVars, wfVars, mainVars, metricsVars, feeVars, evtVars, claimVars, trackerVars, breakerVars, mmVars, registryVars, rtVars>>

-----------------------------------------------------------------------------
(* Bounds of the model *)

\* Longest price series drawn (series of every length 0..NBars are drawn).
NBars == 4
\* Largest notional and largest scaling factor drawn for the cost function.
MaxNotional == 4
MaxFactor == 3
\* Longest monthly P&L list drawn.
MaxMonths == 4

-----------------------------------------------------------------------------
(* Helpers *)

Max(a, b) == IF a >= b THEN a ELSE b
Min(a, b) == IF a <= b THEN a ELSE b
Abs(a) == IF a < 0 THEN -a ELSE a

\* dict.get(key, default)
Get(d, key, default) == IF key \in DOMAIN d THEN d[key] ELSE default

\* The row with Python index j.
Row(d, j) == d[j + 1]

\* A price difference in dollars as money in 1e-4 dollars.
Money(x) == x * 10000

-----------------------------------------------------------------------------
(* Cost models: compute_round_trip_cost *)

DefaultCommission == 25000  \* 2.50
DefaultSlippageTicks == 50  \* 0.5
DefaultTickValue == 1250    \* 12.50
DefaultMakerFee == 2        \* 0.0002
DefaultTakerFee == 5        \* 0.0005
DefaultCexSlippage == 5     \* 0.0005
DefaultDexSlippage == 10    \* 0.001
DefaultGas == 5000          \* 0.50

KnownTypes == {"futures", "crypto_cex", "crypto_dex"}

\* cm_type = cost_model.get("type", "futures")
CmType(cm) == Get(cm, "type", "futures")

FuturesCost(cm) ==
    2 * Get(cm, "commission_per_side", DefaultCommission)
    + 2 * Get(cm, "slippage_ticks", DefaultSlippageTicks)
        * Get(cm, "tick_value", DefaultTickValue)

CexCost(cm, notional) ==
    (Get(cm, "maker_fee", DefaultMakerFee) + Get(cm, "taker_fee", DefaultTakerFee)
     + 2 * Get(cm, "slippage_pct", DefaultCexSlippage)) * notional

\* A cex branch that also charges the dex gas (the two branches confused).
CexCostWithGas(cm, notional) ==
    (Get(cm, "maker_fee", DefaultMakerFee) + Get(cm, "taker_fee", DefaultTakerFee)
     + 2 * Get(cm, "slippage_pct", DefaultCexSlippage)) * notional
    + 2 * Get(cm, "gas_per_trade", DefaultGas)

DexCost(cm, notional) ==
    (Get(cm, "maker_fee", DefaultMakerFee) + Get(cm, "taker_fee", DefaultTakerFee)
     + 2 * Get(cm, "slippage_pct", DefaultDexSlippage)) * notional
    + 2 * Get(cm, "gas_per_trade", DefaultGas)

\* A futures branch that charges commission and slippage for one side only.
compute_round_trip_cost_OneSide(cm, notional) ==
    IF CmType(cm) = "futures"
    THEN [raised |-> FALSE,
          cost |-> Get(cm, "commission_per_side", DefaultCommission)
                   + Get(cm, "slippage_ticks", DefaultSlippageTicks)
                     * Get(cm, "tick_value", DefaultTickValue)]
    ELSE IF CmType(cm) = "crypto_cex"
    THEN [raised |-> FALSE, cost |-> CexCost(cm, notional)]
    ELSE IF CmType(cm) = "crypto_dex"
    THEN [raised |-> FALSE, cost |-> DexCost(cm, notional)]
    ELSE [raised |-> TRUE, cost |-> 0]

\* A cex branch that falls through to the dex formula.
compute_round_trip_cost_CexGas(cm, notional) ==
    IF CmType(cm) = "futures"
    THEN [raised |-> FALSE, cost |-> FuturesCost(cm)]
    ELSE IF CmType(cm) = "crypto_cex"
    THEN [raised |-> FALSE, cost |-> CexCostWithGas(cm, notional)]
    ELSE IF CmType(cm) = "crypto_dex"
    THEN [raised |-> FALSE, cost |-> DexCost(cm, notional)]
    ELSE [raised |-> TRUE, cost |-> 0]

\* The result of compute_round_trip_cost: the cost in 1e-4 dollars, or
\* raised = TRUE for `raise ValueError("Unknown cost model type: ...")`.
compute_round_trip_cost(cm, notional) ==
    IF CmType(cm) = "futures"
    THEN [raised |-> FALSE, cost |-> FuturesCost(cm)]
    ELSE IF CmType(cm) = "crypto_cex"
    THEN [raised |-> FALSE, cost |-> CexCost(cm, notional)]
    ELSE IF CmType(cm) = "crypto_dex"
    THEN [raised |-> FALSE, cost |-> DexCost(cm, notional)]
    ELSE [raised |-> TRUE, cost |-> 0]

\* The futures model of the round-trip scenario:
\* {commission_per_side = 2.5, slippage_ticks = 0.5, tick_value = 12.5}.
ScenarioCostModel ==
    [type |-> "futures", commission_per_side |-> 25000,
     slippage_ticks |-> 50, tick_value |-> 1250]

CexModel == [type |-> "crypto_cex", maker_fee |-> 2, taker_fee |-> 5, slippage_pct |-> 5]
DexModel ==
    [type |-> "crypto_dex", maker_fee |-> 2, taker_fee |-> 5,
     slippage_pct |-> 10, gas_per_trade |-> 5000]
\* A model whose type is none of the three known ones.
UnknownModel == [type |-> "options"]

-----------------------------------------------------------------------------
(* simulate_trades *)

\* The bars price series are built from: valid OHLC bars whose opens differ,
\* one whose close differs from its open, one lying wholly below and one
\* wholly above another bar's open.
BarShapes ==
    { [open |-> 2, high |-> 3, low |-> 1, close |-> 3],
      [open |-> 1, high |-> 1, low |-> 1, close |-> 1],
      [open |-> 3, high |-> 4, low |-> 2, close |-> 2] }

SignalValues == {-1, 0, 1}

Rows ==
    { [open |-> b.open, high |-> b.high, low |-> b.low, close |-> b.close,
       signal |-> s] : b \in BarShapes, s \in SignalValues }

\* All data frames of at most n rows.
Frames(n) == UNION { [1..len -> Rows] : len \in 0..n }

\* The round-trip scenario: prices [100,101,99,102,105] with open = close on
\* every bar, signals [0,1,1,1,0].
ScenarioPrices == <<100, 101, 99, 102, 105>>
ScenarioSignals == <<0, 1, 1, 1, 0>>
ScenarioFrame ==
    [k \in 1..5 |->
        [open |-> ScenarioPrices[k], high |-> ScenarioPrices[k],
         low |-> ScenarioPrices[k], close |-> ScenarioPrices[k],
         signal |-> ScenarioSignals[k]]]

SimCostModels == {ScenarioCostModel, DexModel, UnknownModel}

\* The decision read from the bar being executed instead of the previous one.
SigNoLag(d, idx) == Row(d, idx).signal

\* sig = signals[i - 1]
Sig(d, idx) == Row(d, idx - 1).signal

\* raw_pnl computed as for a long position whatever the side.
RawPnlLongOnly(pos, entryPx, exitPx) == exitPx - entryPx

\* raw_pnl by side, in dollars.
RawPnl(pos, entryPx, exitPx) ==
    IF pos = 1 THEN exitPx - entryPx ELSE entryPx - exitPx

\* A Trade stamped with the bar of the signal instead of the bar of the fill.
ClosedTradeSignalBar(exitBar, exitPx) ==
    [entry_bar |-> entry_bar,
     exit_bar |-> exitBar - 1,
     side |-> IF position = 1 THEN "long" ELSE "short",
     entry_price |-> entry_price,
     exit_price |-> exitPx,
     pnl |-> Money(RawPnl(position, entry_price, exitPx))
             - compute_round_trip_cost(cost_model, Abs(entry_price)).cost,
     mfe |-> running_mfe,
     mae |-> running_mae]

\* The Trade appended when the open position is closed at exitPx on exitBar.
ClosedTrade(exitBar, exitPx) ==
    [entry_bar |-> entry_bar,
     exit_bar |-> exitBar,
     side |-> IF position = 1 THEN "long" ELSE "short",
     entry_price |-> entry_price,
     exit_price |-> exitPx,
     pnl |-> Money(RawPnl(position, entry_price, exitPx))
             - compute_round_trip_cost(cost_model, Abs(entry_price)).cost,
     mfe |-> running_mfe,
     mae |-> running_mae]

\* excursion_high / excursion_low of a bar for a position entered at px.
ExcursionHigh(pos, px, bar) == IF pos = 1 THEN bar.high - px ELSE px - bar.low
ExcursionLow(pos, px, bar) == IF pos = 1 THEN bar.low - px ELSE px - bar.high

\* The excursion of the current bar kept instead of the running maximum.
UpdateMfeLastBar(mfe, excursion) == excursion

\* running_mfe = max(running_mfe, excursion_high)
UpdateMfe(mfe, excursion) == Max(mfe, excursion)
\* running_mae = min(running_mae, excursion_low)
UpdateMae(mae, excursion) == Min(mae, excursion)

\* The terminal exit priced at the last bar's open, like the exits inside the loop.
FlushExitPriceOpen(d) == Row(d, Len(d) - 1).open

\* exit_price = closes[-1]
FlushExitPrice(d) == Row(d, Len(d) - 1).close

SimInit ==
    /\ \/ df \in Frames(NBars) /\ cost_model \in SimCostModels
       \/ df = ScenarioFrame /\ cost_model = ScenarioCostModel
    /\ pc = "loop"
    /\ i = 1
    /\ position = 0
    /\ entry_bar = 0
    /\ entry_price = 0
    /\ running_mfe = 0
    /\ running_mae = 0
    /\ trades = <<>>

\* One iteration of `for i in range(1, n)`.
LoopStep ==
    /\ pc = "loop"
    /\ i < Len(df)
    /\ LET sig == Sig(df, i)
           bar == Row(df, i)
           closing == sig # position /\ position # 0
           opening == sig # position /\ sig # 0
           rt == compute_round_trip_cost(cost_model, Abs(entry_price))
       IN  IF closing /\ rt.raised
           THEN /\ pc' = "error"
                /\ UNCHANGED <<df, cost_model, i, position, entry_bar, entry_price,
                               running_mfe, running_mae, trades>>
           ELSE LET position1 == IF sig # position THEN sig ELSE position
                    entry_price1 == IF opening THEN bar.open ELSE entry_price
                    mfe0 == IF opening THEN 0 ELSE running_mfe
                    mae0 == IF opening THEN 0 ELSE running_mae
                IN  /\ trades' = IF closing
                                 THEN Append(trades, ClosedTrade(i, bar.open))
                                 ELSE trades
                    /\ position' = position1
                    /\ entry_bar' = IF opening THEN i ELSE entry_bar
                    /\ entry_price' = entry_price1
                    /\ running_mfe' =
                          IF position1 # 0
                          THEN UpdateMfe(mfe0, ExcursionHigh(position1, entry_price1, bar))
                          ELSE mfe0
                    /\ running_mae' =
                          IF position1 # 0
                          THEN UpdateMae(mae0, ExcursionLow(position1, entry_price1, bar))
                          ELSE mae0
                    /\ i' = i + 1
                    /\ pc' = "loop"
                    /\ UNCHANGED <<df, cost_model>>

\* After the loop: close any open position at the last bar's close; return.
Flush ==
    /\ pc = "loop"
    /\ ~(i < Len(df))
    /\ IF position # 0
       THEN IF compute_round_trip_cost(cost_model, Abs(entry_price)).raised
            THEN pc' = "error" /\ trades' = trades
            ELSE /\ trades' = Append(trades, ClosedTrade(Len(df) - 1, FlushExitPrice(df)))
                 /\ pc' = "done"
       ELSE pc' = "done" /\ trades' = trades
    /\ UNCHANGED <<df, cost_model, i, position, entry_bar, entry_price,
                   running_mfe, running_mae>>

SimIdle ==
    /\ df = <<>>
    /\ cost_model = <<>>
    /\ pc = "idle"
    /\ i = 0
    /\ position = 0
    /\ entry_bar = 0
    /\ entry_price = 0
    /\ running_mfe = 0
    /\ running_mae = 0
    /\ trades = <<>>

-----------------------------------------------------------------------------
(* compute_round_trip_cost applied to drawn arguments *)

CostModels ==
    { ScenarioCostModel, CexModel, DexModel, UnknownModel,
      [type |-> "futures"], [type |-> "crypto_cex"], [type |-> "crypto_dex"],
      [type |-> "crypto_dex", gas_per_trade |-> 0],
      [commission_per_side |-> 10000] }

CostInit ==
    /\ cm_arg \in CostModels
    /\ notional_arg \in 0..MaxNotional
    /\ factor_arg \in 0..MaxFactor
    /\ cost_out = <<>>
    /\ cost_pc = "call"

\* The two calls compute_round_trip_cost(cm, N) and compute_round_trip_cost(cm, k*N).
ComputeCost ==
    /\ cost_pc = "call"
    /\ cost_out' = <<compute_round_trip_cost(cm_arg, notional_arg),
                     compute_round_trip_cost(cm_arg, factor_arg * notional_arg)>>
    /\ cost_pc' = "returned"
    /\ UNCHANGED <<cm_arg, notional_arg, factor_arg>>

CostIdle ==
    /\ cm_arg = <<>>
    /\ notional_arg = 0
    /\ factor_arg = 0
    /\ cost_out = <<>>
    /\ cost_pc = "idle"

-----------------------------------------------------------------------------
(* Anti-overfit flags and grading: check_overfit_flags, grade_result *)

\* The thresholds of the code, in 1e-4 for the ratios.
FlagSharpe == 30000         \* sharpe_ratio > 3.0
FlagWinRate == 8000         \* win_rate > 0.80
FlagTrades == 100           \* total_trades < 100
FlagMonths == 3             \* len(monthly_returns) > 3
RejectTrades == 30          \* total_trades < 30
ReviewSharpeLow == 10000    \* 1.0 <= sharpe_ratio
ReviewSharpeHigh == 15000   \* sharpe_ratio <= 1.5
ReviewDrawdown == 1500      \* max_drawdown > 0.15
ReviewTradesLow == 30       \* 30 <= total_trades
ReviewTradesHigh == 100     \* total_trades <= 100
GoodSharpeLow == 15000      \* 1.5 < sharpe_ratio
GoodSharpeHigh == 30000     \* sharpe_ratio <= 3.0
GoodDrawdown == 1500        \* max_drawdown <= 0.15
GoodTrades == 100           \* total_trades > 100
GoodWinRate == 8000         \* win_rate <= 0.80

\* sum(1 for m in monthly_returns if m["pnl"] < 0)
LosingMonths(mr) == Cardinality({ k \in 1..Len(mr) : mr[k] < 0 })

\* The smoothness flag raised from three months of history on.
check_overfit_flags_ThreeMonths(m, mr) ==
    [sharpe_above_3 |-> m.sharpe_ratio > FlagSharpe,
     win_rate_above_80 |-> m.win_rate > FlagWinRate,
     trades_below_100 |-> m.total_trades < FlagTrades,
     no_losing_months |->
        IF mr # <<>> THEN LosingMonths(mr) = 0 /\ Len(mr) >= FlagMonths ELSE FALSE]

check_overfit_flags(m, mr) ==
    [sharpe_above_3 |-> m.sharpe_ratio > FlagSharpe,
     win_rate_above_80 |-> m.win_rate > FlagWinRate,
     trades_below_100 |-> m.total_trades < FlagTrades,
     no_losing_months |->
        IF mr # <<>> THEN LosingMonths(mr) = 0 /\ Len(mr) > FlagMonths ELSE FALSE]

Rejected == [passed |-> FALSE, grade |-> "rejected"]
UnderReview == [passed |-> TRUE, grade |-> "under_review"]
Good == [passed |-> TRUE, grade |-> "good"]

\* The GOOD rule with sharpe_ratio < 3.0 for sharpe_ratio <= 3.0.
grade_result_GoodBelow3(m, f) ==
    IF f.sharpe_above_3 THEN Rejected
    ELSE IF f.win_rate_above_80 THEN Rejected
    ELSE IF m.total_trades < RejectTrades THEN Rejected
    ELSE IF f.no_losing_months THEN Rejected
    ELSE IF ReviewSharpeLow <= m.sharpe_ratio /\ m.sharpe_ratio <= ReviewSharpeHigh
    THEN UnderReview
    ELSE IF m.max_drawdown > ReviewDrawdown THEN UnderReview
    ELSE IF ReviewTradesLow <= m.total_trades /\ m.total_trades <= ReviewTradesHigh
    THEN UnderReview
    ELSE IF /\ GoodSharpeLow < m.sharpe_ratio /\ m.sharpe_ratio < GoodSharpeHigh
            /\ m.max_drawdown <= GoodDrawdown
            /\ m.total_trades > GoodTrades
            /\ m.win_rate <= GoodWinRate
    THEN Good
    ELSE UnderReview

\* The trade-count REJECT rule with total_trades <= 30 for total_trades < 30.
grade_result_Reject30(m, f) ==
    IF f.sharpe_above_3 THEN Rejected
    ELSE IF f.win_rate_above_80 THEN Rejected
    ELSE IF m.total_trades <= RejectTrades THEN Rejected
    ELSE IF f.no_losing_months THEN Rejected
    ELSE IF ReviewSharpeLow <= m.sharpe_ratio /\ m.sharpe_ratio <= ReviewSharpeHigh
    THEN UnderReview
    ELSE IF m.max_drawdown > ReviewDrawdown THEN UnderReview
    ELSE IF ReviewTradesLow <= m.total_trades /\ m.total_trades <= ReviewTradesHigh
    THEN UnderReview
    ELSE IF /\ GoodSharpeLow < m.sharpe_ratio /\ m.sharpe_ratio <= GoodSharpeHigh
            /\ m.max_drawdown <= GoodDrawdown
            /\ m.total_trades > GoodTrades
            /\ m.win_rate <= GoodWinRate
    THEN Good
    ELSE UnderReview

grade_result(m, f) ==
    \* REJECT conditions
    IF f.sharpe_above_3 THEN Rejected
    ELSE IF f.win_rate_above_80 THEN Rejected
    ELSE IF m.total_trades < RejectTrades THEN Rejected
    ELSE IF f.no_losing_months THEN Rejected
    \* UNDER_REVIEW conditions
    ELSE IF ReviewSharpeLow <= m.sharpe_ratio /\ m.sharpe_ratio <= ReviewSharpeHigh
    THEN UnderReview
    ELSE IF m.max_drawdown > ReviewDrawdown THEN UnderReview
    ELSE IF ReviewTradesLow <= m.total_trades /\ m.total_trades <= ReviewTradesHigh
    THEN UnderReview
    \* GOOD conditions
    ELSE IF /\ GoodSharpeLow < m.sharpe_ratio /\ m.sharpe_ratio <= GoodSharpeHigh
            /\ m.max_drawdown <= GoodDrawdown
            /\ m.total_trades > GoodTrades
            /\ m.win_rate <= GoodWinRate
    THEN Good
    \* Default
    ELSE UnderReview

\* The metric values drawn: each threshold of the code, the grid point below
\* or above it, and a value far from all of them.
SharpeValues ==
    {-5000, ReviewSharpeLow - 1, ReviewSharpeLow, ReviewSharpeHigh,
     ReviewSharpeHigh + 1, FlagSharpe, FlagSharpe + 1}
WinRateValues == {5000, FlagWinRate, FlagWinRate + 1}
TradesValues == {RejectTrades - 1, RejectTrades, FlagTrades, FlagTrades + 1}
DrawdownValues == {0, ReviewDrawdown, ReviewDrawdown + 1}
MonthlyPnls == {-1, 0, 1}

GradeInit ==
    /\ metrics \in [sharpe_ratio : SharpeValues, win_rate : WinRateValues,
                    total_trades : TradesValues, max_drawdown : DrawdownValues]
    /\ monthly_returns \in UNION { [1..len -> MonthlyPnls] : len \in 0..MaxMonths }
    /\ flags = <<>>
    /\ grade_out = <<>>
    /\ grade_pc = "flags"

\* flags = check_overfit_flags(metrics, monthly_returns)
CheckOverfitFlags ==
    /\ grade_pc = "flags"
    /\ flags' = check_overfit_flags(metrics, monthly_returns)
    /\ grade_pc' = "grade"
    /\ UNCHANGED <<metrics, monthly_returns, grade_out>>

\* passed, grade = grade_result(metrics, flags)
GradeResult ==
    /\ grade_pc = "grade"
    /\ grade_out' = grade_result(metrics, flags)
    /\ grade_pc' = "done"
    /\ UNCHANGED <<metrics, monthly_returns, flags>>

GradeIdle ==
    /\ metrics = <<>>
    /\ monthly_returns = <<>>
    /\ flags = <<>>
    /\ grade_out = <<>>
    /\ grade_pc = "idle"

-----------------------------------------------------------------------------
(* Properties of simulate_trades *)

NRows == Len(df)
Signal(j) == Row(df, j).signal
HasFlip == \E j \in 0..(NRows - 1) : Signal(j) # 0
\* The first bar whose signal is not 0.
FirstFlip ==
    CHOOSE j \in 0..(NRows - 1) :
        Signal(j) # 0 /\ \A k \in 0..(j - 1) : Signal(k) = 0
\* The last Trade of a returned list is the one made by the end-of-series flush.
FlushTrade(k) == pc = "done" /\ position # 0 /\ k = Len(trades)
SideSign(t) == IF t.side = "long" THEN 1 ELSE -1
SetMax(S) == CHOOSE x \in S : \A y \in S : x >= y
SetMin(S) == CHOOSE x \in S : \A y \in S : x <= y
\* The signal takes a nonzero value at bar f and keeps it to the end.
HoldsFrom(f) ==
    /\ Signal(f) # 0
    /\ \A k \in 0..(f - 1) : Signal(k) = 0
    /\ \A k \in f..(NRows - 1) : Signal(k) = Signal(f)
\* The signal read on the last bar, signal[n-2], is nonzero and differs from
\* the one read on the bar before: a position is opened on the last bar.
OpenedOnLastBar ==
    /\ NRows >= 2
    /\ Signal(NRows - 2) # 0
    /\ (NRows = 2 \/ Signal(NRows - 3) # Signal(NRows - 2))
IsScenario == df = ScenarioFrame /\ cost_model = ScenarioCostModel

\* C1: after bar i has been processed the position equals signal[i-1] (here
\* i has already been advanced, so the bar processed last is i-1), whatever
\* signal[i] is; and the position opened by the first nonzero signal, at
\* bar f, is entered on bar f+1 at open[f+1], which is also the entry of the
\* first trade.
C1_LagInvariant ==
    pc \in {"loop", "done", "error"} =>
        /\ i >= 2 => position = Signal(i - 2)
        /\ (HasFlip /\ (Len(trades) >= 1 \/ position # 0)) =>
              LET first == IF Len(trades) >= 1
                           THEN [bar |-> trades[1].entry_bar, px |-> trades[1].entry_price]
                           ELSE [bar |-> entry_bar, px |-> entry_price]
              IN  /\ first.bar = FirstFlip + 1
                  /\ first.px = Row(df, FirstFlip + 1).open

\* A returned trade list whose first trade was entered one bar after a flip
\* at f >= 1, where the signal of the entry bar differs from the signal at f
\* and the two bars open at different prices.
C1_Witness ==
    /\ pc = "done"
    /\ Len(trades) >= 1
    /\ HasFlip
    /\ FirstFlip >= 1
    /\ FirstFlip + 1 <= NRows - 1
    /\ Signal(FirstFlip + 1) # Signal(FirstFlip)
    /\ Row(df, FirstFlip + 1).open # Row(df, FirstFlip).open
    /\ trades[1].entry_bar = FirstFlip + 1

\* C2 as claimed: every trade has entry_bar < exit_bar, the flush trade
\* included.
C2_EntryBeforeExit ==
    \A k \in 1..Len(trades) : trades[k].entry_bar < trades[k].exit_bar

\* C2 amended: every trade closed inside the loop has entry_bar < exit_bar;
\* the trade made by the end-of-series flush has entry_bar <= exit_bar = n-1,
\* with equality exactly when its position was opened on the last bar.
C2_EntryNotAfterExit ==
    \A k \in 1..Len(trades) :
        IF FlushTrade(k)
        THEN /\ trades[k].exit_bar = NRows - 1
             /\ trades[k].entry_bar <= trades[k].exit_bar
             /\ (trades[k].entry_bar = trades[k].exit_bar) <=> OpenedOnLastBar
        ELSE trades[k].entry_bar < trades[k].exit_bar

\* A returned list holding a trade closed inside the loop and a flush trade
\* entered and closed on the last bar.
C2_Witness ==
    /\ pc = "done"
    /\ Len(trades) >= 2
    /\ FlushTrade(Len(trades))
    /\ trades[Len(trades)].entry_bar = trades[Len(trades)].exit_bar
    /\ trades[1].entry_bar < trades[1].exit_bar

\* C3 as claimed: a signal series that takes a nonzero value and then keeps
\* it to the end yields exactly one trade, closed on the last bar at the
\* last bar's close.
C3_OneTradeAtLastClose ==
    (pc = "done" /\ \E f \in 0..(NRows - 1) : HoldsFrom(f)) =>
        /\ Len(trades) = 1
        /\ trades[1].exit_bar = NRows - 1
        /\ trades[1].exit_price = Row(df, NRows - 1).close

\* C3 amended: when the nonzero value is first taken at a bar f before the
\* last one (f <= n-2) and kept to the end, the returned list holds exactly
\* one trade, entered on bar f+1 and closed on bar n-1 at close[n-1]; when it
\* is first taken on the last bar the returned list is empty.
C3_FlushInvariant ==
    pc = "done" =>
        \A f \in 0..(NRows - 1) :
            HoldsFrom(f) =>
                IF f <= NRows - 2
                THEN /\ Len(trades) = 1
                     /\ trades[1].entry_bar = f + 1
                     /\ trades[1].exit_bar = NRows - 1
                     /\ trades[1].exit_price = Row(df, NRows - 1).close
                     /\ trades[1].side = (IF Signal(f) = 1 THEN "long" ELSE "short")
                ELSE trades = <<>>

\* A returned single trade of a held signal on a series whose last bar
\* closes away from its open.
C3_Witness ==
    /\ pc = "done"
    /\ NRows >= 3
    /\ \E f \in 0..(NRows - 2) : HoldsFrom(f)
    /\ Len(trades) = 1
    /\ Row(df, NRows - 1).close # Row(df, NRows - 1).open

\* C4 as claimed: the round-trip scenario returns one trade that enters at
\* bar 1's open (101) and exits at bar 4's open (102) with
\* net_pnl = (102 - 101) - 17.5 = -16.5.
C4_ScenarioAsClaimed ==
    (IsScenario /\ pc = "done") =>
        /\ Len(trades) = 1
        /\ trades[1].entry_bar = 1
        /\ trades[1].entry_price = 101
        /\ trades[1].exit_bar = 4
        /\ trades[1].exit_price = 102
        /\ trades[1].pnl = -165000

\* C4 amended: the round-trip scenario returns one long trade that enters at
\* bar 2's open (99, one bar after the flip at bar 1) and is closed by the
\* end-of-series flush on bar 4 at its close (105), with
\* net_pnl = (105 - 99) - 17.5 = -11.5.
C4_Scenario ==
    (IsScenario /\ pc = "done") =>
        /\ Len(trades) = 1
        /\ trades[1].side = "long"
        /\ trades[1].entry_bar = 2
        /\ trades[1].entry_price = 99
        /\ trades[1].exit_bar = 4
        /\ trades[1].exit_price = 105
        /\ trades[1].pnl = -115000

\* The scenario has been simulated to its return.
C4_Witness == IsScenario /\ pc = "done" /\ Len(trades) = 1

\* C5 as claimed: with a cost model of unknown type no simulation step is
\* executed and no trade list is returned.
C5_UnknownTypeFailsFast ==
    (pc # "idle" /\ CmType(cost_model) \notin KnownTypes) =>
        (i = 1 /\ pc # "done")

\* C7: every trade has mfe >= 0 and mae <= 0; mfe (mae) is the largest
\* (smallest) of 0 and the excursions of every bar the position was open on,
\* from the entry bar to the bar before the exit (to the last bar for the
\* flush trade); and the running values of the open position are those of
\* the bars from its entry bar to the bar processed last.
BarsHeld(t, k) ==
    IF FlushTrade(k) THEN t.entry_bar..(NRows - 1) ELSE t.entry_bar..(t.exit_bar - 1)
ExcursionsHigh(sign, px, bars) ==
    {0} \cup { ExcursionHigh(sign, px, Row(df, b)) : b \in bars }
ExcursionsLow(sign, px, bars) ==
    {0} \cup { ExcursionLow(sign, px, Row(df, b)) : b \in bars }
C7_Excursions ==
    /\ \A k \in 1..Len(trades) :
          LET t == trades[k]
          IN  /\ t.mfe >= 0
              /\ t.mae <= 0
              /\ t.mfe = SetMax(ExcursionsHigh(SideSign(t), t.entry_price, BarsHeld(t, k)))
              /\ t.mae = SetMin(ExcursionsLow(SideSign(t), t.entry_price, BarsHeld(t, k)))
    /\ (pc = "loop" /\ position # 0) =>
          /\ running_mfe = SetMax(ExcursionsHigh(position, entry_price, entry_bar..(i - 1)))
          /\ running_mae = SetMin(ExcursionsLow(position, entry_price, entry_bar..(i - 1)))

\* A returned trade held over several bars with a favourable and an adverse
\* excursion, whose last bar held lies wholly on the adverse side, following
\* an earlier trade (so the running values were reset at its entry).
C7_Witness ==
    /\ pc = "done"
    /\ Len(trades) >= 2
    /\ LET t == trades[Len(trades)]
       IN  /\ t.mfe > 0
           /\ t.mae < 0
           /\ ExcursionHigh(SideSign(t), t.entry_price, Row(df, NRows - 1)) < 0
    /\ trades[1].mfe > 0

-----------------------------------------------------------------------------
(* Properties of compute_round_trip_cost *)

CostReturned == cost_pc = "returned" /\ ~cost_out[1].raised
GasOf(cm) == Get(cm, "gas_per_trade", DefaultGas)

\* C6 as claimed: the futures cost is the same at every notional, and the
\* crypto_cex and crypto_dex costs scale linearly: cost(k*N) = k * cost(N).
C6_LinearInNotional ==
    CostReturned =>
        /\ CmType(cm_arg) = "futures" => cost_out[2].cost = cost_out[1].cost
        /\ CmType(cm_arg) \in {"crypto_cex", "crypto_dex"} =>
              cost_out[2].cost = factor_arg * cost_out[1].cost

\* C6 amended: the futures cost is the same at every notional; the
\* crypto_cex cost scales linearly, cost(k*N) = k * cost(N); the crypto_dex
\* cost is the flat 2 * gas_per_trade plus a part that scales linearly,
\* cost(k*N) - 2*gas = k * (cost(N) - 2*gas).
C6_NotionalDependence ==
    CostReturned =>
        /\ CmType(cm_arg) = "futures" => cost_out[2].cost = cost_out[1].cost
        /\ CmType(cm_arg) = "crypto_cex" =>
              cost_out[2].cost = factor_arg * cost_out[1].cost
        /\ CmType(cm_arg) = "crypto_dex" =>
              cost_out[2].cost - 2 * GasOf(cm_arg)
                  = factor_arg * (cost_out[1].cost - 2 * GasOf(cm_arg))

\* The cost of a dex model with gas computed at a notional and at a multiple
\* of it, the two differing.
C6_Witness ==
    /\ CostReturned
    /\ CmType(cm_arg) = "crypto_dex"
    /\ GasOf(cm_arg) > 0
    /\ factor_arg >= 2
    /\ notional_arg >= 1
    /\ cost_out[2].cost > cost_out[1].cost

-----------------------------------------------------------------------------
(* Properties of check_overfit_flags and grade_result *)

Graded == grade_pc = "done"
HasLosingMonth == \E k \in 1..Len(monthly_returns) : monthly_returns[k] < 0
\* One of the four REJECT rules applies to the input.
RejectRule ==
    \/ metrics.sharpe_ratio > 30000
    \/ metrics.win_rate > 8000
    \/ metrics.total_trades < 30
    \/ (Len(monthly_returns) > 3 /\ ~HasLosingMonth)
\* One of the three UNDER_REVIEW rules applies to the input.
ReviewRule ==
    \/ (10000 <= metrics.sharpe_ratio /\ metrics.sharpe_ratio <= 15000)
    \/ metrics.max_drawdown > 1500
    \/ (30 <= metrics.total_trades /\ metrics.total_trades <= 100)
\* The GOOD rule applies to the input.
GoodRule ==
    /\ 15000 < metrics.sharpe_ratio /\ metrics.sharpe_ratio <= 30000
    /\ metrics.max_drawdown <= 1500
    /\ metrics.total_trades > 100
    /\ metrics.win_rate <= 8000
\* The input is eligible for 'good' but for its sharpe_ratio.
GoodButSharpe ==
    /\ metrics.win_rate <= 8000
    /\ metrics.total_trades > 100
    /\ metrics.max_drawdown <= 1500
    /\ HasLosingMonth

\* C8: the grade is 'rejected' with passed = False exactly when
\* sharpe_ratio > 3.0, or win_rate > 0.80, or total_trades < 30, or there
\* are more than 3 months and none has negative P&L; every other input is
\* passed = True with grade 'good' or 'under_review'.
C8_RejectExactly ==
    Graded =>
        IF RejectRule
        THEN grade_out = [passed |-> FALSE, grade |-> "rejected"]
        ELSE grade_out.passed /\ grade_out.grade \in {"good", "under_review"}

\* A rejection owed to the monthly rule alone, with exactly 4 months.
C8_Witness ==
    /\ Graded
    /\ grade_out.grade = "rejected"
    /\ metrics.sharpe_ratio <= 30000
    /\ metrics.win_rate <= 8000
    /\ metrics.total_trades >= 30
    /\ Len(monthly_returns) = 4
    /\ \E k \in 1..4 : monthly_returns[k] = 0

\* C9: the grade is 'good' exactly when no REJECT rule applies and the GOOD
\* rule does; a non-rejected input that matches an UNDER_REVIEW rule, or no
\* rule at all, is 'under_review'.
C9_GoodExactly ==
    Graded =>
        /\ (grade_out.grade = "good") <=> (~RejectRule /\ GoodRule)
        /\ (~RejectRule /\ ReviewRule) => grade_out = [passed |-> TRUE, grade |-> "under_review"]
        /\ (~RejectRule /\ ~ReviewRule /\ ~GoodRule) =>
              grade_out = [passed |-> TRUE, grade |-> "under_review"]

\* A 'good' grade with sharpe_ratio, max_drawdown and win_rate on their
\* thresholds.
C9_Witness ==
    /\ Graded
    /\ grade_out.grade = "good"
    /\ metrics.sharpe_ratio = 30000
    /\ metrics.max_drawdown = 1500
    /\ metrics.win_rate = 8000

\* C10: the boundary values fall on the documented side: for inputs
\* otherwise eligible for 'good', sharpe 3.0 is 'good', sharpe 1.5 and
\* sharpe 1.0 are 'under_review'; total_trades = 30 and win_rate = 0.80 are
\* not rejected when no other REJECT rule applies, and total_trades = 100 is
\* then 'under_review'.
C10_Boundaries ==
    Graded =>
        /\ GoodButSharpe =>
              /\ metrics.sharpe_ratio = 30000 => grade_out = [passed |-> TRUE, grade |-> "good"]
              /\ metrics.sharpe_ratio = 15000 =>
                    grade_out = [passed |-> TRUE, grade |-> "under_review"]
              /\ metrics.sharpe_ratio = 10000 =>
                    grade_out = [passed |-> TRUE, grade |-> "under_review"]
        /\ (/\ metrics.sharpe_ratio <= 30000
            /\ metrics.win_rate <= 8000
            /\ (Len(monthly_returns) <= 3 \/ HasLosingMonth)) =>
              /\ metrics.total_trades = 30 => grade_out.grade # "rejected"
              /\ metrics.total_trades = 100 =>
                    grade_out = [passed |-> TRUE, grade |-> "under_review"]
              /\ (metrics.win_rate = 8000 /\ metrics.total_trades >= 30) =>
                    grade_out.grade # "rejected"

\* A graded input with total_trades = 30 and win_rate = 0.80 that is not
\* rejected.
C10_Witness ==
    /\ Graded
    /\ metrics.total_trades = 30
    /\ metrics.win_rate = 8000
    /\ metrics.sharpe_ratio = 30000
    /\ HasLosingMonth
    /\ grade_out.passed

-----------------------------------------------------------------------------
(* Walk-forward orchestration: load_strategy and run_walk_forward          *)
(*                                                                         *)
(* The Strategy class is external code.  Its effect on the three objects   *)
(* it can reach (its own instance, the params object it was constructed    *)
(* with, the data frame it is handed) is a record of three booleans; what  *)
(* one evaluation computes is represented by what it saw of these three    *)
(* objects when it started, since its signals, trades and metrics are a    *)
(* function of them.  The content of a mutable object is the number of     *)
(* times it has been mutated (0 = as the caller built it).                 *)
(* total_pnl of a fold is counted in cents (compute_metrics rounds it to   *)
(* two decimals).                                                          *)

\* Longest series drawn for the walk-forward (total_bars in 0..MaxBars).
MaxBars == 6

\* Largest train_bars, test_bars and step_bars drawn (each in 1..MaxWindow).
MaxWindow == 3

\* total_pnl (cents) an out-of-sample evaluation can report.
PnlValues == {-100, 200}

\* What a Strategy may do during indicators()/signals(): mutate its own
\* attributes, mutate the params object it holds, mutate the frame it got.
StrategyKinds == [mut_attrs : BOOLEAN, mut_params : BOOLEAN, mut_frame : BOOLEAN]

ParamsValues == {"None", "empty", "dict"}

WfConfigs ==
    { [k \in {"train_bars", "test_bars"} |-> IF k = "train_bars" THEN tr ELSE te] :
        tr \in 1..MaxWindow, te \in 1..MaxWindow }
    \cup
    { [k \in {"train_bars", "test_bars", "step_bars"} |->
          IF k = "train_bars" THEN tr ELSE IF k = "test_bars" THEN te ELSE st] :
        tr \in 1..MaxWindow, te \in 1..MaxWindow, st \in 1..MaxWindow }

\* Longest series drawn together with window sizes of any sign.
MaxAnyBars == 3

\* Most iterations of the while loop followed in one call.  With positive
\* window sizes the loop ends within MaxBars - 1 iterations, and with the
\* window sizes of any sign drawn below a loop whose start advances ends
\* within MaxAnyBars + 3, so only a loop that does not advance is cut short.
MaxFolds == 7

\* Window sizes that main's validation lets through besides the positive
\* ones: it tests that the keys are there and not what they hold.
AnyWindow == {-1, 0, 1, 2}

WfConfigsAny ==
    { [k \in {"train_bars", "test_bars"} |-> IF k = "train_bars" THEN tr ELSE te] :
        tr \in AnyWindow, te \in AnyWindow }
    \cup
    { [k \in {"train_bars", "test_bars", "step_bars"} |->
          IF k = "train_bars" THEN tr ELSE IF k = "test_bars" THEN te ELSE st] :
        tr \in AnyWindow, te \in AnyWindow, st \in AnyWindow }

train_bars == wf_config["train_bars"]

test_bars == wf_config["test_bars"]

step_bars == Get(wf_config, "step_bars", test_bars)

\* load_strategy(strategy_path, p): the module is executed anew and a new
\* instance is built, so the instance's attributes are fresh; the instance is
\* constructed with the caller's object when p is a non-empty dict
\* (strategy_cls(params=init_params), or strategy_cls(init_params) after a
\* TypeError) and otherwise with nothing, and then holds the fresh dict
\* default_params() returns.
load_strategy(p) ==
    LET init_params == IF p # "None" THEN p ELSE "empty"
    IN  [attrs |-> 0,
         params_ref |-> IF init_params = "dict" THEN "caller" ELSE "defaults"]

\* df.iloc[a:b].copy().reset_index(drop=True): a new object with the content
\* the caller's frame has now.
SliceCopy(heap) == [content |-> heap.df_obj, ref |-> "copy"]

\* One evaluation (slice, load_strategy, indicators, signals,
\* simulate_trades, compute_metrics) started on the heap
\* [params_obj, df_obj]: what the evaluation saw, and the heap it leaves.
Evaluation(heap) ==
    LET frame == SliceCopy(heap)
        inst  == load_strategy(params)
        seen  == [attrs  |-> inst.attrs,
                  params |-> IF inst.params_ref = "caller"
                             THEN heap.params_obj ELSE 0,
                  frame  |-> frame.content]
    IN  [seen |-> seen,
         heap |-> [params_obj |->
                      IF strategy.mut_params /\ inst.params_ref = "caller"
                      THEN heap.params_obj + 1 ELSE heap.params_obj,
                   df_obj |->
                      IF strategy.mut_frame /\ frame.ref = "caller"
                      THEN heap.df_obj + 1 ELSE heap.df_obj]]

FoldFitsStrict(s) == s + train_bars + test_bars < total_bars

\* The loop condition of run_walk_forward at start = s.
FoldFits(s) == s + train_bars + test_bars <= total_bars

FoldRangesTestFromStart(s) ==
    [train_range |-> <<s, s + train_bars>>,
     test_range  |-> <<s, Min(s + test_bars, total_bars)>>]

\* train_start, train_end, test_start, test_end of the fold at start = s.
FoldRanges(s) ==
    [train_range |-> <<s, s + train_bars>>,
     test_range  |-> <<s + train_bars,
                       Min(s + train_bars + test_bars, total_bars)>>]

RECURSIVE SeqSum(_)
SeqSum(s) == IF s = <<>> THEN 0 ELSE Head(s) + SeqSum(Tail(s))

\* round(num / den, 0) for den > 0, ties to even (Python's round on a value
\* that is exact in binary; the drawn pnl values are whole dollars, so a tie
\* at the second decimal of a mean is k/8 and exact).
RoundDiv(num, den) ==
    LET q == num \div den
        r == num % den
    IN  IF 2 * r < den THEN q
        ELSE IF 2 * r > den THEN q + 1
        ELSE IF q % 2 = 0 THEN q ELSE q + 1

\* round(float(np.mean(xs)), 2) in cents; np.mean of an empty list is nan.
RoundedMean(xs) ==
    IF xs = <<>> THEN "nan" ELSE RoundDiv(SeqSum(xs), Len(xs))

AggregateUnguarded(fs) ==
    LET all_oos_pnls == [k \in 1..Len(fs) |-> fs[k].out_of_sample.total_pnl]
    IN  [avg_oos_pnl   |-> RoundedMean(all_oos_pnls),
         total_oos_pnl |-> SeqSum(all_oos_pnls)]

\* The "aggregate" dict of the report (avg_oos_pnl and total_oos_pnl; the three
\* sharpe and decay aggregates follow the same `... if xs else 0.0` pattern).
Aggregate(fs) ==
    LET all_oos_pnls == [k \in 1..Len(fs) |-> fs[k].out_of_sample.total_pnl]
    IN  [avg_oos_pnl   |-> IF all_oos_pnls # <<>>
                           THEN RoundedMean(all_oos_pnls) ELSE 0,
         total_oos_pnl |-> IF all_oos_pnls # <<>>
                           THEN SeqSum(all_oos_pnls) ELSE 0]

NoReport == [mode |-> "none"]

WfInit ==
    /\ wf_config \in WfConfigs
    /\ total_bars \in 0..MaxBars
    /\ params \in ParamsValues
    /\ strategy \in StrategyKinds
    /\ params_obj = 0
    /\ df_obj = 0
    /\ start = 0
    /\ fold_num = 0
    /\ folds = <<>>
    /\ report = NoReport
    /\ wf_pc = "loop"

\* A call with any integer window sizes, on a strategy that mutates nothing
\* and with no params (the loop condition depends on neither).
WfAnyInit ==
    /\ wf_config \in WfConfigsAny
    /\ total_bars \in 0..MaxAnyBars
    /\ params = "None"
    /\ strategy = [mut_attrs |-> FALSE, mut_params |-> FALSE, mut_frame |-> FALSE]
    /\ params_obj = 0
    /\ df_obj = 0
    /\ start = 0
    /\ fold_num = 0
    /\ folds = <<>>
    /\ report = NoReport
    /\ wf_pc = "loop"

\* One iteration of the while loop that completes: the in-sample evaluation,
\* then the out-of-sample evaluation, then folds.append and start += step_bars.
WfFold ==
    /\ wf_pc = "loop"
    /\ FoldFits(start)
    /\ fold_num < MaxFolds
    /\ \E pnl \in PnlValues :
         LET r   == FoldRanges(start)
             is  == Evaluation([params_obj |-> params_obj, df_obj |-> df_obj])
             oos == Evaluation(is.heap)
         IN  /\ fold_num' = fold_num + 1
             /\ folds' = Append(folds,
                    [fold          |-> fold_num + 1,
                     train_range   |-> r.train_range,
                     test_range    |-> r.test_range,
                     in_sample     |-> [seen |-> is.seen],
                     out_of_sample |-> [seen |-> oos.seen, total_pnl |-> pnl]])
             /\ params_obj' = oos.heap.params_obj
             /\ df_obj' = oos.heap.df_obj
    /\ start' = start + step_bars
    /\ UNCHANGED <<wf_config, total_bars, params, strategy, report, wf_pc>>

\* One iteration of the while loop in which an evaluation raises (the
\* strategy's code, or simulate_trades on an unknown cost model): the
\* exception leaves run_walk_forward.
WfFoldRaises ==
    /\ wf_pc = "loop"
    /\ FoldFits(start)
    /\ wf_pc' = "raised"
    /\ fold_num' = fold_num + 1
    /\ UNCHANGED <<wf_config, total_bars, params, strategy, params_obj,
                   df_obj, start, folds, report>>

\* The loop condition is false: aggregate and return.
WfReturn ==
    /\ wf_pc = "loop"
    /\ ~FoldFits(start)
    /\ report' = [mode        |-> "walk_forward",
                  config      |-> wf_config,
                  total_folds |-> Len(folds),
                  folds       |-> folds,
                  aggregate   |-> Aggregate(folds)]
    /\ wf_pc' = "returned"
    /\ UNCHANGED <<wf_config, total_bars, params, strategy, params_obj,
                   df_obj, start, fold_num, folds>>

WfIdle ==
    /\ wf_config = <<>>
    /\ total_bars = 0
    /\ params = "None"
    /\ strategy = [mut_attrs |-> FALSE, mut_params |-> FALSE, mut_frame |-> FALSE]
    /\ params_obj = 0
    /\ df_obj = 0
    /\ start = 0
    /\ fold_num = 0
    /\ folds = <<>>
    /\ report = NoReport
    /\ wf_pc = "idle"

-----------------------------------------------------------------------------
(* Claims about run_walk_forward *)

WfReturned == wf_pc = "returned"

\* The number of folds the claim gives for a series that holds one fold.
ExpectedFolds == ((total_bars - train_bars - test_bars) \div step_bars) + 1

\* C11: for every series length L and positive train_bars, test_bars and
\* step_bars, run_walk_forward returns exactly
\* floor((L - train_bars - test_bars) / step_bars) + 1 folds when
\* L >= train_bars + test_bars; otherwise it does not raise and returns
\* total_folds = 0, an empty fold list and an aggregate of zeros (nothing
\* computed from the empty lists).
C11_FoldCount ==
    /\ WfReturned =>
          IF total_bars >= train_bars + test_bars
          THEN /\ report.total_folds = ExpectedFolds
               /\ Len(report.folds) = ExpectedFolds
          ELSE /\ report.total_folds = 0
               /\ report.folds = <<>>
               /\ report.aggregate = [avg_oos_pnl |-> 0, total_oos_pnl |-> 0]
    /\ wf_pc = "raised" => total_bars >= train_bars + test_bars

\* A returned report with at least two folds on a series whose tail does not
\* hold a further whole step.
C11_Witness ==
    /\ WfReturned
    /\ total_bars > train_bars + test_bars
    /\ (total_bars - train_bars - test_bars) % step_bars # 0
    /\ report.total_folds >= 2

\* The fold whose position in the fold list is k, counting from 0, has the
\* ranges the claim gives for index k.
RangesAt(f, k) ==
    /\ f.train_range = <<k * step_bars, k * step_bars + train_bars>>
    /\ f.test_range = <<k * step_bars + train_bars,
                        k * step_bars + train_bars + test_bars>>

FoldShape(f) ==
    /\ f.test_range[2] - f.test_range[1] = test_bars
    /\ f.test_range[2] <= total_bars
    /\ f.train_range[2] <= f.test_range[1]

\* C12 as stated: the fold with index k (the "fold" entry of the fold dict)
\* has train_range [k*step, k*step+train_bars) and test_range
\* [k*step+train_bars, k*step+train_bars+test_bars); every test_range holds
\* exactly test_bars bars and ends within the series; train and test never
\* overlap; the fold list is strictly increasing in the fold index.
C12_RangesByFoldIndex ==
    WfReturned =>
        /\ \A j \in 1..Len(report.folds) :
              /\ RangesAt(report.folds[j], report.folds[j].fold)
              /\ FoldShape(report.folds[j])
        /\ \A j \in 1..(Len(report.folds) - 1) :
              report.folds[j].fold < report.folds[j + 1].fold

\* C12, amended: the "fold" entry counts from 1; the fold whose "fold" entry
\* is k + 1 (the k-th of the list counting from 0) has train_range
\* [k*step, k*step+train_bars) and test_range
\* [k*step+train_bars, k*step+train_bars+test_bars); every test_range holds
\* exactly test_bars bars and ends within the series; train and test never
\* overlap; the fold list is strictly increasing in the "fold" entry.
C12_RangesByPosition ==
    WfReturned =>
        /\ \A j \in 1..Len(report.folds) :
              /\ report.folds[j].fold = j
              /\ RangesAt(report.folds[j], j - 1)
              /\ FoldShape(report.folds[j])
        /\ \A j \in 1..(Len(report.folds) - 1) :
              report.folds[j].fold < report.folds[j + 1].fold

\* A returned report with three folds whose step differs from test_bars and
\* whose last fold ends exactly at the end of the series.
C12_Witness ==
    /\ WfReturned
    /\ Len(report.folds) >= 3
    /\ step_bars # test_bars
    /\ report.folds[Len(report.folds)].test_range[2] = total_bars

\* What an evaluation sees when it is run alone: a fresh instance, the params
\* and the frame as the caller built them.
Alone == [attrs |-> 0, params |-> 0, frame |-> 0]

\* C13: the in-sample and out-of-sample evaluations of a fold, and the
\* evaluations of different folds, share no mutable state: whatever the
\* strategy mutates, every evaluation starts from what it would see when run
\* alone, whether or not explicit params are supplied.
C13_Independent ==
    \A j \in 1..Len(folds) :
        /\ folds[j].in_sample.seen = Alone
        /\ folds[j].out_of_sample.seen = Alone

-----------------------------------------------------------------------------
(* The CLI entry point: main                                               *)
(*                                                                         *)
(* main is followed statement by statement.  Each option value is          *)
(* represented by what json.loads and the two checks make of it; the       *)
(* loading and computing calls are external to main and either return or   *)
(* raise (FileNotFoundError or any other Exception).                       *)

\* --cost-model / --params: not given (or empty), valid JSON, invalid JSON.
JsonArgs == {"absent", "valid", "invalid"}

\* --walk-forward: not given (or empty), invalid JSON, JSON that is not an
\* object (no .keys()), an object lacking train_bars or test_bars, a complete
\* object.
WalkForwardArgs == {"absent", "invalid", "notdict", "nokeys", "valid"}

OutputArgs == {"absent", "path"}

MainArgs == [cost_model : JsonArgs, params : JsonArgs,
             walk_forward : WalkForwardArgs, output : OutputArgs]

CallOutcomes == {"ok", "FileNotFoundError", "Exception"}

EmitOutcomes == {"ok", "dumps_raises", "emit_raises"}

\* The stages the claim names: option parsing, the required-keys check,
\* loading and computing.
EarlyStages == {"cost_model", "params", "walk_forward", "required_keys",
                "load", "compute"}

WriteFailureSwallowed(f, how) ==
    [ret |-> 0, file |-> IF how = "ok" THEN {"full"} ELSE {f, "partial"}]

\* Lines 857-874 with --output given: json.dumps, mkdir, write_text, return 0;
\* an exception in json.dumps or mkdir leaves the file as it was, one inside
\* write_text leaves it as it was (open failed) or truncated / partly written,
\* and both are caught and return 1.
WriteOutput(f, how) ==
    IF how = "ok" THEN [ret |-> 0, file |-> {"full"}]
    ELSE IF how = "dumps_raises" THEN [ret |-> 1, file |-> {f}]
    ELSE [ret |-> 1, file |-> {f, "partial"}]

MainInit ==
    /\ args \in MainArgs
    /\ main_pc = "cost_model"
    /\ results = "none"
    /\ out_file \in {"absent", "old"}
    /\ out_file_before = out_file
    /\ stdout = "nothing"
    /\ ret = <<>>
    /\ failed_at = "none"

\* `return 1` from stage s with nothing else changed.
Return1(s) ==
    /\ main_pc' = "returned"
    /\ ret' = <<1>>
    /\ failed_at' = s
    /\ UNCHANGED <<args, results, out_file, out_file_before, stdout>>

Goto(s) ==
    /\ main_pc' = s
    /\ UNCHANGED <<args, results, out_file, out_file_before, stdout, ret,
                   failed_at>>

\* Lines 804-812.
ParseCostModel ==
    /\ main_pc = "cost_model"
    /\ IF args.cost_model = "invalid" THEN Return1("cost_model")
       ELSE Goto("params")

\* Lines 815-822.
ParseParams ==
    /\ main_pc = "params"
    /\ IF args.params = "invalid" THEN Return1("params")
       ELSE Goto("walk_forward")

\* Lines 825-831: without --walk-forward the standard backtest is run.
ParseWalkForward ==
    /\ main_pc = "walk_forward"
    /\ IF args.walk_forward = "absent" THEN Goto("load")
       ELSE IF args.walk_forward = "invalid" THEN Return1("walk_forward")
       ELSE Goto("required_keys")

\* Lines 833-839; wf_config.keys() on a value that is not an object raises
\* AttributeError, caught at line 871.
CheckRequiredKeys ==
    /\ main_pc = "required_keys"
    /\ IF args.walk_forward \in {"nokeys", "notdict"}
       THEN Return1("required_keys")
       ELSE Goto("load")

\* load_data (line 841), or the loading part of run_backtest (line 847).
LoadData ==
    /\ main_pc = "load"
    /\ \E outcome \in CallOutcomes :
          IF outcome = "ok" THEN Goto("compute") ELSE Return1("load")

\* run_walk_forward (lines 842-844) or the computing part of run_backtest.
Compute ==
    /\ main_pc = "compute"
    /\ \E outcome \in CallOutcomes \ {"FileNotFoundError"} :
          IF outcome = "ok"
          THEN /\ results' = "full"
               /\ main_pc' = "emit"
               /\ UNCHANGED <<args, out_file, out_file_before, stdout, ret,
                              failed_at>>
          ELSE Return1("compute")

\* Lines 857-866 and the handlers at 868-874.
Emit ==
    /\ main_pc = "emit"
    /\ main_pc' = "returned"
    /\ \E how \in EmitOutcomes :
          /\ failed_at' = IF how = "ok" THEN "none" ELSE "emit"
          /\ IF args.output = "path"
             THEN LET w == WriteOutput(out_file, how)
                  IN  /\ ret' = <<w.ret>>
                      /\ out_file' \in w.file
                      /\ stdout' = stdout
             ELSE /\ ret' = IF how = "ok" THEN <<0>> ELSE <<1>>
                  /\ stdout' = IF how = "ok" THEN "full"
                               ELSE IF how = "dumps_raises" THEN stdout
                               ELSE "partial"
                  /\ out_file' = out_file
    /\ UNCHANGED <<args, results, out_file_before>>

MainIdle ==
    /\ args = <<>>
    /\ main_pc = "idle"
    /\ results = "none"
    /\ out_file = "absent"
    /\ out_file_before = "absent"
    /\ stdout = "nothing"
    /\ ret = <<>>
    /\ failed_at = "none"

-----------------------------------------------------------------------------
(* Claims about main *)

\* C14: the output file is written only after the computation has completed;
\* when parsing of --cost-model, --params or --walk-forward fails, the
\* walk-forward config lacks a required key, or loading or computing raises,
\* main returns 1 and the output file is as it was before the call; main
\* returns 0 only after the full result has been emitted (to the output file
\* when --output is given, else to stdout).
C14_OutputOnlyAfterSuccess ==
    /\ out_file # out_file_before => results = "full"
    /\ failed_at \in EarlyStages =>
          /\ main_pc = "returned"
          /\ ret = <<1>>
          /\ out_file = out_file_before
    /\ ret = <<0>> =>
          /\ results = "full"
          /\ IF args.output = "path" THEN out_file = "full"
             ELSE stdout = "full"

\* A walk-forward run whose computation raised after the options were parsed
\* and the data loaded, with an output file that already existed.
C14_Witness ==
    /\ main_pc = "returned"
    /\ failed_at = "compute"
    /\ args.walk_forward = "valid"
    /\ args.output = "path"
    /\ out_file_before = "old"

-----------------------------------------------------------------------------
(* Performance metrics: compute_metrics                                    *)
(*                                                                         *)
(* The drawn pnl values are whole dollars, so total_pnl and                *)
(* max_drawdown_dollars (round(x, 2)) are exact.  Metrics rounded to four  *)
(* decimals (win_rate, profit_factor, max_drawdown, calmar_ratio) are      *)
(* counted in 1e-4 and those rounded to two decimals (avg_trade_pnl,       *)
(* avg_winner, avg_loser, expectancy) in cents.  profit_factor is a record *)
(* [inf, value]: inf = TRUE stands for float("inf") (round(inf, 4) is      *)
(* inf).  sharpe_ratio (a square root) and avg_holding_bars are not        *)
(* modelled.                                                               *)

\* Longest trade list drawn (lists of every length 0..MaxTrades are drawn).
MaxTrades == 4

\* The pnl values a trade can have.
TradePnls == {-5, -3, 0, 10, 20}

RECURSIVE PnlLists(_)
PnlLists(n) ==
    IF n = 0 THEN { <<>> }
    ELSE LET shorter == PnlLists(n - 1)
         IN  shorter \cup { Append(s, p) : s \in { t \in shorter : Len(t) = n - 1 },
                                            p \in TradePnls }

IsWinner(p) == p > 0

IsLoser(p) == p < 0

\* np.cumsum(pnls)
Equity(pnls) == [k \in 1..Len(pnls) |-> SeqSum(SubSeq(pnls, 1, k))]

\* np.maximum.accumulate(equity)
RunningMax(equity) ==
    [k \in 1..Len(equity) |-> SetMax({ equity[j] : j \in 1..k })]

SeqMax(s) == SetMax({ s[k] : k \in 1..Len(s) })

\* round(x, 4) of x = num / den, in 1e-4.
Round4(num, den) == RoundDiv(num * 10000, den)

\* round(x, 2) of x = num / den, in cents.
Round2(num, den) == RoundDiv(num * 100, den)

RECURSIVE MaxConsecutiveFlatCounts(_, _, _)
\* The loop with a zero-P&L trade counted as a loss (p <= 0).
MaxConsecutiveFlatCounts(pnls, max_consec, current_consec) ==
    IF pnls = <<>> THEN max_consec
    ELSE IF Head(pnls) <= 0
         THEN MaxConsecutiveFlatCounts(Tail(pnls),
                                       Max(max_consec, current_consec + 1),
                                       current_consec + 1)
         ELSE MaxConsecutiveFlatCounts(Tail(pnls), max_consec, 0)

RECURSIVE MaxConsecutive(_, _, _)
\* The loop at lines 386-393, from position k with the two counters.
MaxConsecutive(pnls, max_consec, current_consec) ==
    IF pnls = <<>> THEN max_consec
    ELSE IF IsLoser(Head(pnls))
         THEN MaxConsecutive(Tail(pnls),
                             Max(max_consec, current_consec + 1),
                             current_consec + 1)
         ELSE MaxConsecutive(Tail(pnls), max_consec, 0)

\* BacktestMetrics(): every field at its default.
DefaultMetrics ==
    [raised |-> FALSE, total_pnl |-> 0, max_drawdown |-> 0,
     max_drawdown_dollars |-> 0, win_rate |-> 0,
     profit_factor |-> [inf |-> FALSE, value |-> 0], total_trades |-> 0,
     avg_trade_pnl |-> 0, avg_winner |-> 0, avg_loser |-> 0,
     max_consecutive_losses |-> 0, expectancy |-> 0, calmar_ratio |-> 0]

ProfitFactorUnguarded(gross_profit, gross_loss) ==
    IF gross_loss = 0
    THEN [raised |-> TRUE, inf |-> FALSE, value |-> 0]
    ELSE [raised |-> FALSE, inf |-> FALSE,
          value |-> Round4(gross_profit, gross_loss)]

\* Line 369 and the rounding at line 408.
ProfitFactor(gross_profit, gross_loss) ==
    IF gross_loss > 0
    THEN [raised |-> FALSE, inf |-> FALSE,
          value |-> Round4(gross_profit, gross_loss)]
    ELSE [raised |-> FALSE, inf |-> TRUE, value |-> 0]

\* Lines 378-383 and the rounding at lines 405-406.
Drawdown(pnls) ==
    LET equity         == Equity(pnls)
        running_max    == RunningMax(equity)
        drawdowns      == [k \in 1..Len(pnls) |-> running_max[k] - equity[k]]
        max_dd_dollars == IF Len(drawdowns) > 0 THEN SeqMax(drawdowns) ELSE 0
        peak           == IF Len(running_max) > 0 THEN SeqMax(running_max) ELSE 0
    IN  [max_drawdown_dollars |-> max_dd_dollars,
         max_drawdown |-> IF peak > 0 THEN Round4(max_dd_dollars, peak) ELSE 0]

compute_metrics(pnls) ==
    IF pnls = <<>> THEN DefaultMetrics
    ELSE
    LET total_pnl    == SeqSum(pnls)
        total_trades == Len(pnls)
        winners      == SelectSeq(pnls, IsWinner)
        losers       == SelectSeq(pnls, IsLoser)
        gross_profit == IF Len(winners) > 0 THEN SeqSum(winners) ELSE 0
        gross_loss   == IF Len(losers) > 0 THEN Abs(SeqSum(losers)) ELSE 0
        pf           == ProfitFactor(gross_profit, gross_loss)
        dd           == Drawdown(pnls)
        avg_trade    == IF total_trades > 0 THEN Round2(total_pnl, total_trades)
                        ELSE 0
    IN  [raised |-> pf.raised,
         total_pnl |-> total_pnl,
         max_drawdown |-> dd.max_drawdown,
         max_drawdown_dollars |-> dd.max_drawdown_dollars,
         win_rate |-> IF total_trades > 0
                      THEN Round4(Len(winners), total_trades) ELSE 0,
         profit_factor |-> [inf |-> pf.inf, value |-> pf.value],
         total_trades |-> total_trades,
         avg_trade_pnl |-> avg_trade,
         avg_winner |-> IF Len(winners) > 0
                        THEN Round2(SeqSum(winners), Len(winners)) ELSE 0,
         avg_loser |-> IF Len(losers) > 0
                       THEN Round2(SeqSum(losers), Len(losers)) ELSE 0,
         max_consecutive_losses |-> MaxConsecutive(pnls, 0, 0),
         expectancy |-> avg_trade,
         calmar_ratio |-> IF dd.max_drawdown_dollars > 0
                          THEN Round4(Abs(total_pnl), dd.max_drawdown_dollars)
                          ELSE 0]

MetricsInit ==
    /\ mt_pnls \in PnlLists(MaxTrades)
    /\ mt_out = <<>>
    /\ mt_pc = "call"

ComputeMetrics ==
    /\ mt_pc = "call"
    /\ mt_out' = compute_metrics(mt_pnls)
    /\ mt_pc' = "returned"
    /\ UNCHANGED mt_pnls

MetricsIdle ==
    /\ mt_pnls = <<>>
    /\ mt_out = <<>>
    /\ mt_pc = "idle"

-----------------------------------------------------------------------------
(* Claims about compute_metrics *)

MetricsReturned == mt_pc = "returned"

\* The cumulative-P&L equity after each trade, its running peak and the
\* drawdown at each trade boundary, as the claim defines them.
EquityAt(k) == SeqSum(SubSeq(mt_pnls, 1, k))

PeakAt(k) == SetMax({ EquityAt(j) : j \in 1..k })

DrawdownAt(k) == PeakAt(k) - EquityAt(k)

MaxDrawdownDollars == SetMax({ DrawdownAt(k) : k \in 1..Len(mt_pnls) })

\* The trade boundaries at which the maximum drawdown is measured.
DeepestAt == { k \in 1..Len(mt_pnls) : DrawdownAt(k) = MaxDrawdownDollars }

\* C15: for every non-empty trade list compute_metrics reports
\* max_drawdown_dollars as the maximum over trade boundaries of
\* (running peak - equity) on the cumulative-P&L curve, and max_drawdown as
\* that dollar drawdown divided by the running peak from which it is measured
\* (rounded to four decimals as every ratio of the report is), or 0 when that
\* peak is <= 0.
C15_DrawdownFromItsPeak ==
    (MetricsReturned /\ mt_pnls # <<>>) =>
        /\ mt_out.max_drawdown_dollars = MaxDrawdownDollars
        /\ \E k \in DeepestAt :
              mt_out.max_drawdown =
                 IF PeakAt(k) > 0 THEN Round4(MaxDrawdownDollars, PeakAt(k))
                 ELSE 0

GrossProfit == SeqSum(SelectSeq(mt_pnls, IsWinner))

GrossLoss == Abs(SeqSum(SelectSeq(mt_pnls, IsLoser)))

\* C16 as stated: compute_metrics never raises on the profit-factor division;
\* with gross_profit > 0 and gross_loss = 0 it returns +infinity, and with
\* gross_loss > 0 it returns gross_profit / gross_loss.
C16_ExactQuotient ==
    MetricsReturned =>
        /\ ~mt_out.raised
        /\ (GrossProfit > 0 /\ GrossLoss = 0) => mt_out.profit_factor.inf
        /\ GrossLoss > 0 =>
              /\ ~mt_out.profit_factor.inf
              /\ mt_out.profit_factor.value * GrossLoss = GrossProfit * 10000

\* C16, amended: compute_metrics never raises on the profit-factor division;
\* with gross_profit > 0 and gross_loss = 0 it returns +infinity, and with
\* gross_loss > 0 it returns gross_profit / gross_loss rounded to four
\* decimals (within 0.00005 of the quotient).
C16_RoundedQuotient ==
    MetricsReturned =>
        /\ ~mt_out.raised
        /\ (GrossProfit > 0 /\ GrossLoss = 0) => mt_out.profit_factor.inf
        /\ GrossLoss > 0 =>
              /\ ~mt_out.profit_factor.inf
              /\ 2 * Abs(mt_out.profit_factor.value * GrossLoss
                         - GrossProfit * 10000) <= GrossLoss

\* An all-winning list (infinite profit factor) has been measured.
C16_Witness ==
    /\ MetricsReturned
    /\ Len(mt_pnls) >= 2
    /\ GrossProfit > 0
    /\ GrossLoss = 0
    /\ mt_out.profit_factor.inf

-----------------------------------------------------------------------------
(* Exchange fee schedules: get_fee_schedule (src/lib/crypto/cost_model.py) *)
(*                                                                         *)
(* Fees are counted in 1e-6 (0.000375 is 375).                             *)

\* vip_tier is drawn from -TiersBelowZero..MaxTier.
TiersBelowZero == 2

MaxTier == 11

F(m, t) == [maker |-> m, taker |-> t]

\* EXCHANGE_FEES: exchange -> tier -> schedule.
EXCHANGE_FEES ==
    [e \in {"binance", "bybit", "okx", "hyperliquid"} |->
        CASE e = "binance" ->
                 (0 :> F(200, 500) @@ 1 :> F(160, 400) @@ 2 :> F(140, 375) @@
                  3 :> F(120, 350) @@ 4 :> F(100, 325) @@ 5 :> F(80, 300) @@
                  6 :> F(60, 250) @@ 7 :> F(40, 200) @@ 8 :> F(20, 180) @@
                  9 :> F(-10, 150))
          [] e = "bybit" ->
                 (0 :> F(200, 550) @@ 1 :> F(180, 400) @@ 2 :> F(160, 375) @@
                  3 :> F(140, 350) @@ 4 :> F(100, 320) @@ 5 :> F(-50, 250))
          [] e = "okx" ->
                 (0 :> F(200, 500) @@ 1 :> F(160, 450) @@ 2 :> F(140, 400) @@
                  3 :> F(120, 350) @@ 4 :> F(100, 300) @@ 5 :> F(80, 250))
          [] e = "hyperliquid" ->
                 (0 :> F(200, 500) @@ 1 :> F(150, 450) @@ 2 :> F(100, 400))]

\* The exchange names drawn: known ones in several spellings, unknown ones.
ExchangeNames == {"binance", "Binance", "bybit", "BYBIT", "okx", "hyperliquid",
                  "HyperLiquid", "kraken"}

\* str.lower() on the drawn names.
Lower(e) ==
    CASE e = "Binance" -> "binance"
      [] e = "BYBIT" -> "bybit"
      [] e = "HyperLiquid" -> "hyperliquid"
      [] OTHER -> e

\* The schedule returned for an exchange that is not in the table.
GenericSchedule == F(200, 500)

get_fee_schedule(exchange, vip_tier) ==
    LET exchange_lower == Lower(exchange)
    IN  IF exchange_lower \notin DOMAIN EXCHANGE_FEES
        THEN [raised |-> FALSE, schedule |-> GenericSchedule]
        ELSE LET tiers == EXCHANGE_FEES[exchange_lower]
             IN  IF vip_tier \in DOMAIN tiers
                 THEN [raised |-> FALSE, schedule |-> tiers[vip_tier]]
                 ELSE LET best_tier == SetMax(DOMAIN tiers)
                      IN  [raised |-> FALSE, schedule |-> tiers[best_tier]]

FeeInit ==
    /\ fee_exchange \in ExchangeNames
    /\ fee_tier \in (0 - TiersBelowZero)..MaxTier
    /\ fee_out = <<>>
    /\ fee_pc = "call"

GetFeeSchedule ==
    /\ fee_pc = "call"
    /\ fee_out' = get_fee_schedule(fee_exchange, fee_tier)
    /\ fee_pc' = "returned"
    /\ UNCHANGED <<fee_exchange, fee_tier>>

FeeIdle ==
    /\ fee_exchange = ""
    /\ fee_tier = 0
    /\ fee_out = <<>>
    /\ fee_pc = "idle"

-----------------------------------------------------------------------------
(* Claims about get_fee_schedule *)

FeeReturned == fee_pc = "returned"

KnownExchange == Lower(fee_exchange) \in DOMAIN EXCHANGE_FEES

\* The tier of table t that is nearest to tier v: v itself when present, the
\* highest tier when v is above it, tier 0 when v is below 0.
NearestTier(t, v) ==
    CHOOSE k \in DOMAIN t : \A j \in DOMAIN t : Abs(k - v) <= Abs(j - v)

\* C17: get_fee_schedule never raises; for a known exchange and a vip_tier
\* that is not in its table (above the highest tier or below 0) it returns the
\* schedule of the nearest known tier; for an unknown exchange it returns
\* maker 0.0002 / taker 0.0005.
C17_NearestKnownTier ==
    FeeReturned =>
        /\ ~fee_out.raised
        /\ KnownExchange =>
              fee_out.schedule =
                 LET t == EXCHANGE_FEES[Lower(fee_exchange)]
                 IN  t[NearestTier(t, fee_tier)]
        /\ ~KnownExchange => fee_out.schedule = [maker |-> 200, taker |-> 500]

-----------------------------------------------------------------------------
(* Tail risk: CryptoRiskModeler.evt_var (src/lib/crypto/risk_modeler.py)   *)
(*                                                                         *)
(* np.percentile sorts its input and the exceedance count does not depend  *)
(* on the order of the observations, so the returns array is a bag.        *)
(* Returns are whole percents; a percentile is counted in 1e-2 percent and *)
(* computed exactly (numpy's default linear interpolation between the two  *)
(* neighbouring order statistics); confidence is a whole percent, so       *)
(* (1 - confidence) * 100 is 100 - evt_confidence.  genpareto.fit is       *)
(* external: it returns parameters or raises, and the value of the GPD     *)
(* formula is not computed.  Arrays are non-empty.                         *)

\* Minimum tail observations for GPD fit.
MIN_TAIL_OBSERVATIONS == 10

ReturnValues == {-5, -2, 0, 1}

\* How often one value may occur in a drawn array.
OccurrenceCounts == {0, 1, 9, 10, 200}

ConfidenceLevels == {95, 99}

FitOutcomes == {"fitted", "raises"}

RECURSIVE BagCount(_, _)
\* The number of observations of bag b whose value is in S.
BagCount(b, S) ==
    IF S = {} THEN 0
    ELSE LET v == CHOOSE x \in S : TRUE
         IN  b[v] + BagCount(b, S \ {v})

\* len(returns)
BagLen(b) == BagCount(b, DOMAIN b)

\* sorted(returns)[k] for a Python index k in 0..len-1.
SortedAt(b, k) ==
    SetMin({ v \in DOMAIN b : BagCount(b, { u \in DOMAIN b : u <= v }) > k })

\* float(np.percentile(returns, q)) in 1e-2 percent, for q in 0..100.
Percentile(b, q) ==
    LET pos == q * (BagLen(b) - 1)
        lo  == pos \div 100
        hi  == Min(lo + 1, BagLen(b) - 1)
        r   == pos % 100
    IN  100 * SortedAt(b, lo) + r * (SortedAt(b, hi) - SortedAt(b, lo))

ExceedancesInclusive(b, threshold) ==
    BagCount(b, { u \in DOMAIN b : 100 * u <= threshold })

\* len(returns[returns < threshold]), threshold in 1e-2 percent.
Exceedances(b, threshold) ==
    BagCount(b, { u \in DOMAIN b : 100 * u < threshold })

\* The historical VaR every fallback returns.
HistoricalVaR(b, confidence) ==
    [raised |-> FALSE, kind |-> "historical",
     value |-> Percentile(b, 100 - confidence)]

evt_var(b, confidence, fit) ==
    IF BagLen(b) < 20 THEN HistoricalVaR(b, confidence)
    ELSE LET threshold == Percentile(b, 5)
             n_u       == Exceedances(b, threshold)
         IN  IF n_u < MIN_TAIL_OBSERVATIONS THEN HistoricalVaR(b, confidence)
             ELSE IF fit = "raises" THEN HistoricalVaR(b, confidence)
             ELSE [raised |-> FALSE, kind |-> "gpd",
                   value |-> [threshold |-> threshold, n |-> BagLen(b),
                              n_u |-> n_u]]

EvtInit ==
    /\ evt_returns \in [ReturnValues -> OccurrenceCounts]
    /\ BagLen(evt_returns) > 0
    /\ evt_confidence \in ConfidenceLevels
    /\ evt_out = <<>>
    /\ evt_pc = "call"

EvtVar ==
    /\ evt_pc = "call"
    /\ \E fit \in FitOutcomes :
          evt_out' = evt_var(evt_returns, evt_confidence, fit)
    /\ evt_pc' = "returned"
    /\ UNCHANGED <<evt_returns, evt_confidence>>

EvtIdle ==
    /\ evt_returns = <<>>
    /\ evt_confidence = 0
    /\ evt_out = <<>>
    /\ evt_pc = "idle"

-----------------------------------------------------------------------------
(* Claims about evt_var *)

EvtReturned == evt_pc = "returned"

\* The number of observations of the array.
Observations == BagCount(evt_returns, ReturnValues)

\* The number of returns strictly below the 5th-percentile threshold.
StrictlyBelowThreshold ==
    BagCount(evt_returns,
             { v \in ReturnValues : 100 * v < Percentile(evt_returns, 5) })

C18_GpdReached ==
    /\ EvtReturned
    /\ StrictlyBelowThreshold = 10
    /\ evt_out.kind = "gpd"

-----------------------------------------------------------------------------
(* The idea registry: claim_idea (src/scripts/claim-idea.py)               *)
(*                                                                         *)
(* Each pane is a process running one claim_idea call; a step is one       *)
(* system call that other processes can observe (exists, open, flock,      *)
(* read, truncate, the write that happens when a file object is closed).   *)
(* json.dump writes into the buffer of the Python file object; for a       *)
(* registry smaller than the buffer the bytes reach the disk when the      *)
(* file is closed.  In save_claims that is the end of its `with` block; in *)
(* claim_idea the `return` inside `try` runs `finally: release_lock(f)`    *)
(* first and the `with` block closes f afterwards.  A write of a buffer    *)
(* starts at offset 0 and does not shorten the file, so written over the   *)
(* content another process has put there meanwhile it can leave bytes that *)
(* json cannot parse.                                                      *)

\* The panes calling claim_idea concurrently, and a pane that does not.
Panes == {1, 2}

OtherPane == 3

\* max_retries of the lock loop.
max_retries == 10

\* The spellings the callers use for the one idea.
IdeaSpellings == {"rsi divergence", "RSI  Divergence"}

\* normalize_idea on the drawn spellings: lower case, single spaces.
normalize_idea(idea) ==
    IF idea = "RSI  Divergence" THEN "rsi divergence" ELSE idea

ClaimStatuses == {"in_progress", "completed", "rejected", "released"}

Absent == [state |-> "absent", claims |-> <<>>]

EmptyFile == [state |-> "empty", claims |-> <<>>]

Corrupt == [state |-> "corrupt", claims |-> <<>>]

FileWith(c) == [state |-> "data", claims |-> c]

\* The registries a run can start from: no file, no claim, or one claim of
\* the idea in any status held by a caller or by another pane.
InitialFiles ==
    {Absent, FileWith(<<>>)}
    \cup { FileWith(<< [idea |-> "rsi divergence", pane |-> p, status |-> s] >>) :
             p \in {1, OtherPane}, s \in ClaimStatuses }

\* find_claim: the index of the first claim of the idea, 0 for None.
find_claim(claims, idea) ==
    LET hits == { k \in 1..Len(claims) :
                    normalize_idea(claims[k].idea) = normalize_idea(idea) }
    IN  IF hits = {} THEN 0 ELSE SetMin(hits)

\* Lines 147-202 without force: whether the call succeeds and the claims
\* list it then writes.
claim_update(claims, pane, idea) ==
    LET k == find_claim(claims, idea)
    IN  IF k = 0
        THEN [success |-> TRUE,
              claims |-> Append(claims, [idea |-> idea, pane |-> pane,
                                         status |-> "in_progress"])]
        ELSE IF claims[k].status \in {"completed", "in_progress"}
        THEN [success |-> FALSE, claims |-> claims]
        ELSE [success |-> TRUE,
              claims |-> [claims EXCEPT ![k].pane = pane,
                                        ![k].status = "in_progress"]]

\* What a buffer holding claims list c leaves on the disk when it is written
\* at offset 0 over file f: c when f is empty, holds the same list or a
\* shorter one; unparsable bytes (the tail of the old content after the new)
\* when f holds a longer list; either when f holds another list of the same
\* length (the byte lengths of two records can differ) or unparsable bytes.
Flushed(f, c) ==
    IF f.state \in {"absent", "empty"} THEN {FileWith(c)}
    ELSE IF f.state = "corrupt" THEN {FileWith(c), Corrupt}
    ELSE IF f.claims = c \/ Len(c) > Len(f.claims) THEN {FileWith(c)}
    ELSE IF Len(c) = Len(f.claims) THEN {FileWith(c), Corrupt}
    ELSE {Corrupt}

NoBuf == [pending |-> FALSE, claims |-> <<>>]

NoResult == [success |-> FALSE, raised |-> FALSE]

ClaimInit ==
    /\ claims_file \in InitialFiles
    /\ lock_holder = 0
    /\ cl_idea \in [Panes -> IdeaSpellings]
    /\ cl_pc = [p \in Panes |-> "exists"]
    /\ cl_data = [p \in Panes |-> <<>>]
    /\ cl_buf = [p \in Panes |-> NoBuf]
    /\ cl_retries = [p \in Panes |-> 0]
    /\ cl_result = [p \in Panes |-> NoResult]

\* Line 115: if not CLAIMS_FILE.exists()
CheckExists(p) ==
    /\ cl_pc[p] = "exists"
    /\ cl_pc' = [cl_pc EXCEPT ![p] =
                    IF claims_file.state = "absent" THEN "load" ELSE "open"]
    /\ UNCHANGED <<claims_file, lock_holder, cl_idea, cl_data, cl_buf,
                   cl_retries, cl_result>>

\* load_claims called at line 116: still no file -> build the initial
\* registry and open it for writing (lines 52-60, 70); a file by now -> read
\* it (lines 63-64), and json.load raises on an empty or unparsable file.
LoadClaims(p) ==
    /\ cl_pc[p] = "load"
    /\ IF claims_file.state = "absent"
       THEN /\ claims_file' = EmptyFile
            /\ cl_data' = [cl_data EXCEPT ![p] = <<>>]
            /\ cl_pc' = [cl_pc EXCEPT ![p] = "create_close"]
            /\ UNCHANGED cl_result
       ELSE IF claims_file.state = "data"
       THEN /\ cl_data' = [cl_data EXCEPT ![p] = claims_file.claims]
            /\ cl_pc' = [cl_pc EXCEPT ![p] = "save_open"]
            /\ UNCHANGED <<claims_file, cl_result>>
       ELSE /\ cl_result' = [cl_result EXCEPT ![p] =
                                [success |-> FALSE, raised |-> TRUE]]
            /\ cl_pc' = [cl_pc EXCEPT ![p] = "done"]
            /\ UNCHANGED <<claims_file, cl_data>>
    /\ UNCHANGED <<lock_holder, cl_idea, cl_buf, cl_retries>>

\* The end of save_claims(initial) inside load_claims (line 71 and the close).
CreateClose(p) ==
    /\ cl_pc[p] = "create_close"
    /\ claims_file' \in Flushed(claims_file, <<>>)
    /\ cl_pc' = [cl_pc EXCEPT ![p] = "save_open"]
    /\ UNCHANGED <<lock_holder, cl_idea, cl_data, cl_buf, cl_retries,
                   cl_result>>

\* save_claims(data) of line 116: open(CLAIMS_FILE, 'w') truncates (line 70).
SaveOpen(p) ==
    /\ cl_pc[p] = "save_open"
    /\ claims_file' = EmptyFile
    /\ cl_pc' = [cl_pc EXCEPT ![p] = "save_close"]
    /\ UNCHANGED <<lock_holder, cl_idea, cl_data, cl_buf, cl_retries,
                   cl_result>>

\* save_claims(data) of line 116: json.dump and the close (line 71).
SaveClose(p) ==
    /\ cl_pc[p] = "save_close"
    /\ claims_file' \in Flushed(claims_file, cl_data[p])
    /\ cl_pc' = [cl_pc EXCEPT ![p] = "open"]
    /\ UNCHANGED <<lock_holder, cl_idea, cl_data, cl_buf, cl_retries,
                   cl_result>>

\* Line 119: open(CLAIMS_FILE, 'r+')
OpenFile(p) ==
    /\ cl_pc[p] = "open"
    /\ cl_pc' = [cl_pc EXCEPT ![p] = "lock"]
    /\ UNCHANGED <<claims_file, lock_holder, cl_idea, cl_data, cl_buf,
                   cl_retries, cl_result>>

\* One iteration of the retry loop (lines 122-131): the flock succeeds, or
\* it fails and the loop goes on, or it fails for the last time and the
\* call returns success = False.
TryLock(p) ==
    /\ cl_pc[p] = "lock"
    /\ IF lock_holder = 0
       THEN /\ lock_holder' = p
            /\ cl_pc' = [cl_pc EXCEPT ![p] = "read"]
            /\ UNCHANGED <<cl_retries, cl_result>>
       ELSE IF cl_retries[p] = max_retries - 1
       THEN /\ cl_result' = [cl_result EXCEPT ![p] =
                                [success |-> FALSE, raised |-> FALSE]]
            /\ cl_pc' = [cl_pc EXCEPT ![p] = "close"]
            /\ UNCHANGED <<lock_holder, cl_retries>>
       ELSE /\ cl_retries' = [cl_retries EXCEPT ![p] = @ + 1]
            /\ UNCHANGED <<lock_holder, cl_pc, cl_result>>
    /\ UNCHANGED <<claims_file, cl_idea, cl_data, cl_buf>>

\* Lines 135-145: read the file; empty content is the initial registry,
\* unparsable content makes json.loads raise.
ReadFile(p) ==
    /\ cl_pc[p] = "read"
    /\ IF claims_file.state = "corrupt"
       THEN /\ cl_result' = [cl_result EXCEPT ![p] =
                                [success |-> FALSE, raised |-> TRUE]]
            /\ cl_pc' = [cl_pc EXCEPT ![p] = "unlock"]
            /\ UNCHANGED cl_data
       ELSE /\ cl_data' = [cl_data EXCEPT ![p] = claims_file.claims]
            /\ cl_pc' = [cl_pc EXCEPT ![p] = "update"]
            /\ UNCHANGED cl_result
    /\ UNCHANGED <<claims_file, lock_holder, cl_idea, cl_buf, cl_retries>>

\* Lines 147-202: decide; on success f.truncate() empties the file and
\* json.dump fills the buffer.
UpdateClaims(p) ==
    /\ cl_pc[p] = "update"
    /\ LET u == claim_update(cl_data[p], p, cl_idea[p])
       IN  /\ cl_result' = [cl_result EXCEPT ![p] =
                               [success |-> u.success, raised |-> FALSE]]
           /\ cl_data' = [cl_data EXCEPT ![p] = u.claims]
           /\ IF u.success
              THEN /\ claims_file' = EmptyFile
                   /\ cl_buf' = [cl_buf EXCEPT ![p] =
                                    [pending |-> TRUE, claims |-> u.claims]]
              ELSE UNCHANGED <<claims_file, cl_buf>>
    /\ cl_pc' = [cl_pc EXCEPT ![p] = "unlock"]
    /\ UNCHANGED <<lock_holder, cl_idea, cl_retries>>

\* Lines 204-205: finally: release_lock(f)
ReleaseLock(p) ==
    /\ cl_pc[p] = "unlock"
    /\ lock_holder' = 0
    /\ cl_pc' = [cl_pc EXCEPT ![p] = "close"]
    /\ UNCHANGED <<claims_file, cl_idea, cl_data, cl_buf, cl_retries,
                   cl_result>>

\* The end of the `with` block of line 119: f is closed, its buffer written,
\* and the call returns (or the exception leaves it).
CloseFile(p) ==
    /\ cl_pc[p] = "close"
    /\ IF cl_buf[p].pending
       THEN claims_file' \in Flushed(claims_file, cl_buf[p].claims)
       ELSE UNCHANGED claims_file
    /\ cl_buf' = [cl_buf EXCEPT ![p] = NoBuf]
    /\ cl_pc' = [cl_pc EXCEPT ![p] = "done"]
    /\ UNCHANGED <<lock_holder, cl_idea, cl_data, cl_retries, cl_result>>

ClaimIdle ==
    /\ claims_file = Absent
    /\ lock_holder = 0
    /\ cl_idea = <<>>
    /\ cl_pc = <<>>
    /\ cl_data = <<>>
    /\ cl_buf = <<>>
    /\ cl_retries = <<>>
    /\ cl_result = <<>>

-----------------------------------------------------------------------------
(* Claims about claim_idea *)

\* The panes whose call has returned success = True.
Succeeded == { p \in Panes : cl_pc[p] = "done" /\ cl_result[p].success }

AllCallsOver == \A p \in Panes : cl_pc[p] = "done"

\* The records the registry on disk holds for the idea.
RecordsOfIdea ==
    IF claims_file.state # "data" THEN {}
    ELSE { k \in 1..Len(claims_file.claims) :
             normalize_idea(claims_file.claims[k].idea) = "rsi divergence" }

\* C19: for every interleaving of claim_idea calls made concurrently by
\* different panes for the same normalized idea without force, from any
\* registry state (a missing claims file included), at most one call returns
\* success = True, and afterwards the registry holds exactly one record for
\* the idea, in_progress and owned by the pane whose call succeeded.
C19_AtMostOneSuccess ==
    /\ Cardinality(Succeeded) <= 1
    /\ (AllCallsOver /\ Succeeded # {}) =>
          /\ Cardinality(RecordsOfIdea) = 1
          /\ \A k \in RecordsOfIdea :
                /\ claims_file.claims[k].status = "in_progress"
                /\ claims_file.claims[k].pane \in Succeeded

-----------------------------------------------------------------------------
(* Budget enforcement: the cost tracker (src/scripts/cost-tracker.py)      *)
(*                                                                         *)
(* The operations are run one after another by one process, so every       *)
(* flock is granted.  Amounts and budgets are whole dollars (the code      *)
(* rounds to six decimals).  The transaction list is represented by its    *)
(* length and a timestamp by whether it is set.                            *)

\* The largest number of add_cost calls followed.
MaxTransactions == 3

\* The amounts add_cost is called with.
Amounts == {1, 2}

\* The budgets: DEFAULT_BUDGET of the environment and the values set_budget
\* is called with.
BudgetValues == {1, 3, 5}

Services == {"claude_api", "exa_api"}

TrackerPanes == {1, 2}

\* The reasons pause_tracking is called with.
PauseReasons == {"manual", "budget_exceeded"}

\* The initial data load_cost_data writes with DEFAULT_BUDGET = b.
InitialTracker(b) ==
    [budget |-> b, spent |-> 0, remaining |-> b,
     breakdown |-> [s \in Services |-> 0],
     byPane |-> [p \in TrackerPanes |-> 0],
     transactions |-> 0,
     startedAt |-> FALSE, pausedAt |-> FALSE, pauseReason |-> "none"]

Returned(op, success, exceeded) ==
    [op |-> op, success |-> success, budget_exceeded |-> exceeded,
     was_paused |-> tracker.pausedAt]

\* add_cost (lines 124-228).
add_cost(data, pane, service, amount) ==
    LET spent           == data.spent + amount
        budget_exceeded == spent >= data.budget
        pause           == budget_exceeded /\ ~data.pausedAt
    IN  [data EXCEPT
            !.startedAt = TRUE,
            !.transactions = @ + 1,
            !.spent = spent,
            !.remaining = data.budget - spent,
            !.breakdown[service] = @ + amount,
            !.byPane[pane] = @ + amount,
            !.pausedAt = IF pause THEN TRUE ELSE @,
            !.pauseReason = IF pause THEN "budget_exceeded" ELSE @]

\* set_budget (lines 271-308).
set_budget(data, new_budget) ==
    LET remaining == new_budget - data.spent
        clear     == remaining > 0 /\ data.pauseReason = "budget_exceeded"
    IN  [data EXCEPT
            !.budget = new_budget,
            !.remaining = remaining,
            !.pausedAt = IF clear THEN FALSE ELSE @,
            !.pauseReason = IF clear THEN "none" ELSE @]

\* reset_tracking(confirm = True) (lines 396-413).
reset_tracking(data) ==
    [data EXCEPT
        !.spent = 0,
        !.remaining = data.budget,
        !.breakdown = [s \in Services |-> 0],
        !.byPane = [p \in TrackerPanes |-> 0],
        !.transactions = 0,
        !.startedAt = FALSE,
        !.pausedAt = FALSE,
        !.pauseReason = "none"]

TrackerInit ==
    /\ tracker \in { InitialTracker(b) : b \in BudgetValues }
    /\ ct_last = [op |-> "none", success |-> FALSE, budget_exceeded |-> FALSE,
                  was_paused |-> FALSE]

AddCost ==
    /\ tracker.transactions < MaxTransactions
    /\ \E pane \in TrackerPanes, service \in Services, amount \in Amounts :
          /\ tracker' = add_cost(tracker, pane, service, amount)
          /\ ct_last' = Returned("add_cost", TRUE,
                                 tracker.spent + amount >= tracker.budget)

SetBudget ==
    \E new_budget \in BudgetValues :
        /\ tracker' = set_budget(tracker, new_budget)
        /\ ct_last' = Returned("set_budget", TRUE, FALSE)

\* pause_tracking (lines 311-344): refused when already paused.
PauseTracking ==
    \E reason \in PauseReasons :
        IF tracker.pausedAt
        THEN /\ ct_last' = Returned("pause_tracking", FALSE, FALSE)
             /\ UNCHANGED tracker
        ELSE /\ tracker' = [tracker EXCEPT !.pausedAt = TRUE,
                                           !.pauseReason = reason]
             /\ ct_last' = Returned("pause_tracking", TRUE, FALSE)

\* A resume_tracking without the budget test of lines 365-372.
resume_tracking_IgnoresBudget(data, locked) ==
    IF ~locked \/ ~data.pausedAt
    THEN [success |-> FALSE, data |-> data]
    ELSE [success |-> TRUE,
          data |-> [data EXCEPT !.pausedAt = FALSE, !.pauseReason = "none"]]

\* resume_tracking (lines 347-385): refused when the lock is held by
\* another process, when not paused and when spent >= budget.
resume_tracking(data, locked) ==
    IF ~locked \/ ~data.pausedAt \/ data.spent >= data.budget
    THEN [success |-> FALSE, data |-> data]
    ELSE [success |-> TRUE,
          data |-> [data EXCEPT !.pausedAt = FALSE, !.pauseReason = "none"]]

\* A call of resume_tracking; acquire_lock fails when another process
\* holds the lock at that moment.
ResumeTracking ==
    \E locked \in BOOLEAN :
        LET r == resume_tracking(tracker, locked)
        IN  /\ tracker' = r.data
            /\ ct_last' = Returned("resume_tracking", r.success, FALSE)

\* reset_tracking (lines 388-420): nothing happens without confirm.
ResetTracking ==
    \E confirm \in BOOLEAN :
        /\ tracker' = IF confirm THEN reset_tracking(tracker) ELSE tracker
        /\ ct_last' = Returned("reset_tracking", confirm, FALSE)

TrackerIdle ==
    /\ tracker = <<>>
    /\ ct_last = <<>>

-----------------------------------------------------------------------------
(* Claims about the cost tracker *)

\* C20: in every reachable state of the cost tracker, after any sequence of
\* add_cost, set_budget, pause_tracking, resume_tracking and confirmed
\* reset_tracking, spent >= budget implies that the tracker is paused; and an
\* add_cost that brings spent to or above budget on an unpaused tracker sets
\* pausedAt with pauseReason "budget_exceeded".
C20_PausedWhenOverBudget ==
    /\ tracker.spent >= tracker.budget => tracker.pausedAt
    /\ (ct_last.op = "add_cost" /\ ct_last.budget_exceeded
          /\ ~ct_last.was_paused) =>
          /\ tracker.pausedAt
          /\ tracker.pauseReason = "budget_exceeded"

-----------------------------------------------------------------------------
(* Exchange circuit breaker: src/lib/crypto/exchange_adapters.py           *)
(*                                                                         *)
(* One CryptoExchangeAdapter with its CircuitBreaker, and the coroutines   *)
(* of one event loop that invoke _call on it.  A coroutine runs without    *)
(* interruption up to its only await (the exchange method), so _call is    *)
(* two steps: CallBegin (allow_request, then the exchange method is        *)
(* invoked) and one of CallSucceeds, CallFails and CallCancelled (the      *)
(* await finishes).  Time is time.monotonic() in whole seconds.            *)

\* The coroutines that invoke _call.
Coroutines == {1, 2}

\* _call invocations begun in one behaviour.
MaxCalls == 7

\* Largest reading of the monotonic clock, and the amounts it advances by.
MaxTime == 160
ClockSteps == {20, 40}

\* CircuitBreaker.failure_threshold and recovery_timeout (seconds).
failure_threshold == 5
recovery_timeout == 60

CLOSED == "closed"
OPEN == "open"
HALF_OPEN == "half_open"

\* CircuitBreaker.state: the stored state after reading the property at
\* time t (an OPEN breaker whose window has elapsed turns HALF_OPEN).
state(b, t) ==
    IF b.state = OPEN /\ t - b.last_failure_time >= recovery_timeout
    THEN [b EXCEPT !.state = HALF_OPEN]
    ELSE b

\* CircuitBreaker.record_success
record_success(b) ==
    [b EXCEPT !.failure_count = 0, !.state = CLOSED]

\* A record_failure that opens one failure late.
RecordFailureLate(b, t) ==
    LET n == b.failure_count + 1
    IN  [state |-> IF n > failure_threshold THEN OPEN ELSE b.state,
         failure_count |-> n,
         last_failure_time |-> t]

\* CircuitBreaker.record_failure at time t
record_failure(b, t) ==
    LET n == b.failure_count + 1
    IN  [state |-> IF n >= failure_threshold THEN OPEN ELSE b.state,
         failure_count |-> n,
         last_failure_time |-> t]

\* An allow_request that also turns away a HALF_OPEN breaker's callers.
AllowOnlyClosed(b) == b.state = CLOSED

\* CircuitBreaker.allow_request, on the breaker the property has updated.
allow_request(b) == b.state # OPEN

NoEvent == [op |-> "none", by |-> 0, ret |-> "none", seen |-> "none",
            elapsed |-> 0]

BreakerInit ==
    /\ breaker = [state |-> CLOSED, failure_count |-> 0,
                  last_failure_time |-> 0]
    /\ now = 0
    /\ call_pc = [c \in Coroutines |-> "idle"]
    /\ admitted_in = [c \in Coroutines |-> "none"]
    /\ outcomes = <<>>
    /\ calls_begun = 0
    /\ cb_last = NoEvent

\* What the step found: the stored state and the seconds since the last
\* recorded failure, before the step changed anything.
Event(op, c, r) ==
    [op |-> op, by |-> c, ret |-> r, seen |-> breaker.state,
     elapsed |-> now - breaker.last_failure_time]

\* time.monotonic() advances.
Tick ==
    /\ \E d \in ClockSteps :
          /\ now + d <= MaxTime
          /\ now' = now + d
    /\ UNCHANGED <<breaker, call_pc, admitted_in, outcomes, calls_begun,
                   cb_last>>

\* allow_request called on its own.
AllowRequest ==
    LET b == state(breaker, now)
    IN  /\ breaker' = b
        /\ cb_last' = Event("allow_request", 0,
                            IF allow_request(b) THEN "True" ELSE "False")
        /\ UNCHANGED <<now, call_pc, admitted_in, outcomes, calls_begun>>

\* _call up to its await: the circuit-breaker test, then either
\* ExchangeUnavailableError or the exchange method is invoked.
CallBegin(c) ==
    /\ call_pc[c] = "idle"
    /\ calls_begun < MaxCalls
    /\ calls_begun' = calls_begun + 1
    /\ LET b == state(breaker, now)
       IN  /\ breaker' = b
           /\ IF allow_request(b)
              THEN /\ call_pc' = [call_pc EXCEPT ![c] = "awaiting"]
                   /\ admitted_in' = [admitted_in EXCEPT ![c] = b.state]
                   /\ cb_last' = Event("_call", c, "invoked")
              ELSE /\ cb_last' = Event("_call", c, "ExchangeUnavailableError")
                   /\ UNCHANGED <<call_pc, admitted_in>>
    /\ UNCHANGED <<now, outcomes>>

\* The exchange method returns: record_success, the result is returned.
CallSucceeds(c) ==
    /\ call_pc[c] = "awaiting"
    /\ breaker' = record_success(breaker)
    /\ outcomes' = Append(outcomes, "success")
    /\ call_pc' = [call_pc EXCEPT ![c] = "idle"]
    /\ admitted_in' = [admitted_in EXCEPT ![c] = "none"]
    /\ cb_last' = Event("record_success", c, admitted_in[c])
    /\ UNCHANGED <<now, calls_begun>>

\* The exchange method raises an Exception: record_failure, re-raised.
CallFails(c) ==
    /\ call_pc[c] = "awaiting"
    /\ breaker' = record_failure(breaker, now)
    /\ outcomes' = Append(outcomes, "failure")
    /\ call_pc' = [call_pc EXCEPT ![c] = "idle"]
    /\ admitted_in' = [admitted_in EXCEPT ![c] = "none"]
    /\ cb_last' = Event("record_failure", c, admitted_in[c])
    /\ UNCHANGED <<now, calls_begun>>

\* The await is cancelled: asyncio.CancelledError is no Exception, so the
\* except clause does not run and nothing is recorded.
CallCancelled(c) ==
    /\ call_pc[c] = "awaiting"
    /\ call_pc' = [call_pc EXCEPT ![c] = "idle"]
    /\ admitted_in' = [admitted_in EXCEPT ![c] = "none"]
    /\ cb_last' = Event("cancelled", c, admitted_in[c])
    /\ UNCHANGED <<breaker, now, outcomes, calls_begun>>

BreakerIdle ==
    /\ breaker = [state |-> CLOSED, failure_count |-> 0,
                  last_failure_time |-> 0]
    /\ now = 0
    /\ call_pc = [c \in Coroutines |-> "idle"]
    /\ admitted_in = [c \in Coroutines |-> "none"]
    /\ outcomes = <<>>
    /\ calls_begun = 0
    /\ cb_last = NoEvent

\* Number of failures recorded after the last recorded success.
RECURSIVE TrailingFailures(_)
TrailingFailures(log) ==
    IF log = <<>> \/ log[Len(log)] = "success"
    THEN 0
    ELSE 1 + TrailingFailures(SubSeq(log, 1, Len(log) - 1))

\* The breaker is OPEN and its recovery window has not elapsed.
InsideWindow ==
    /\ breaker.state = OPEN
    /\ now - breaker.last_failure_time < recovery_timeout

Awaiting == {c \in Coroutines : call_pc[c] = "awaiting"}

\* C21: the breaker goes from CLOSED to OPEN exactly in the step that
\* records the failure_threshold-th failure since the last recorded
\* success; and in every step taken while it is OPEN with fewer than
\* recovery_timeout seconds since the last recorded failure, allow_request
\* returns False, _call raises ExchangeUnavailableError and no coroutine
\* starts awaiting the exchange method.
C21_OpensAtThresholdAndRejects ==
    [][ /\ (breaker.state = CLOSED /\ breaker'.state = OPEN)
           <=> /\ breaker.state = CLOSED
               /\ Len(outcomes') = Len(outcomes) + 1
               /\ TrailingFailures(outcomes') = failure_threshold
        /\ InsideWindow =>
              /\ Awaiting' \subseteq Awaiting
              /\ (cb_last' # cb_last /\ cb_last'.op = "allow_request")
                    => cb_last'.ret = "False"
              /\ calls_begun' # calls_begun
                    => cb_last'.ret = "ExchangeUnavailableError"
      ]_vars

\* A success was recorded, then failure_threshold failures in a row opened
\* the breaker, and a _call inside the window has been turned away.
C21_Witness ==
    /\ \E n \in 1..Len(outcomes) : outcomes[n] = "success"
    /\ TrailingFailures(outcomes) = failure_threshold
    /\ breaker.state = OPEN
    /\ cb_last.op = "_call"
    /\ cb_last.ret = "ExchangeUnavailableError"
    /\ cb_last.seen = OPEN
    /\ cb_last.elapsed < recovery_timeout

\* The calls the exchange is serving that were let through as probes.
ProbesInFlight ==
    {c \in Coroutines : call_pc[c] = "awaiting" /\ admitted_in[c] = HALF_OPEN}

\* C22: once the window has elapsed the breaker is HALF_OPEN and lets one
\* probe through; no second call reaches the exchange while the probe is
\* in flight; a successful probe closes the breaker with failure count 0
\* and a failed probe reopens it.
C22_OneProbe ==
    /\ Cardinality(ProbesInFlight) <= 1
    /\ (cb_last.op = "record_success" /\ cb_last.ret = HALF_OPEN)
          => breaker.state = CLOSED /\ breaker.failure_count = 0
    /\ (cb_last.op = "record_failure" /\ cb_last.ret = HALF_OPEN)
          => breaker.state = OPEN

-----------------------------------------------------------------------------
(* Ordering of the trades of simulate_trades *)

\* The signal that closed trade t reversed its position: it is the nonzero
\* signal of the opposite side.
ReversedDirectly(t) == Signal(t.exit_bar - 1) = 0 - SideSign(t)

\* The pnl of a trade recomputed from its own fields, in 1e-4 dollars.
SideAdjustedPnl(t) ==
    Money(IF t.side = "long"
          THEN t.exit_price - t.entry_price
          ELSE t.entry_price - t.exit_price)
    - compute_round_trip_cost(cost_model, Abs(t.entry_price)).cost

\* C23: the trades are in chronological order and do not overlap: a trade
\* exits no later than the next one enters, on the same bar exactly when
\* the signal reversed directly between long and short, and then the old
\* position is closed and the new one opened at that bar's open, which
\* happens on every bar whose deciding signal is the opposite of the one
\* before; every trade's pnl is the side-adjusted price difference minus
\* compute_round_trip_cost(model, |entry_price|).
C23_OrderedNonOverlapping ==
    pc \in {"loop", "done"} =>
        /\ \A k \in 1..(Len(trades) - 1) :
              LET t == trades[k]
                  u == trades[k + 1]
              IN  /\ t.exit_bar <= u.entry_bar
                  /\ (t.exit_bar = u.entry_bar) <=> ReversedDirectly(t)
                  /\ t.exit_bar = u.entry_bar =>
                        /\ t.side # u.side
                        /\ u.entry_price = t.exit_price
                        /\ t.exit_price = Row(df, t.exit_bar).open
        /\ \A j, k \in 1..Len(trades) :
              j < k => trades[j].exit_bar <= trades[k].entry_bar
        /\ \A b \in 2..(i - 1) :
              (Signal(b - 1) # 0 /\ Signal(b - 2) = 0 - Signal(b - 1)) =>
                 \E k \in 1..Len(trades) :
                    /\ trades[k].exit_bar = b
                    /\ trades[k].exit_price = Row(df, b).open
                    /\ pc = "done" =>
                          /\ k < Len(trades)
                          /\ trades[k + 1].entry_bar = b
        /\ \A k \in 1..Len(trades) : trades[k].pnl = SideAdjustedPnl(trades[k])

\* A returned list in which a short trade, whose raw pnl is not 0, was
\* closed by a direct reversal and the next trade entered on the same bar
\* at that bar's open, which differs from the open of the bar before.
C23_Witness ==
    /\ pc = "done"
    /\ Len(trades) >= 2
    /\ trades[1].side = "short"
    /\ trades[1].exit_price # trades[1].entry_price
    /\ ReversedDirectly(trades[1])
    /\ trades[1].exit_bar = trades[2].entry_bar
    /\ trades[2].entry_price = Row(df, trades[1].exit_bar).open
    /\ Row(df, trades[1].exit_bar).open # Row(df, trades[1].exit_bar - 1).open
    /\ trades[2].exit_bar > trades[2].entry_bar

-----------------------------------------------------------------------------
(* Claim about max_consecutive_losses *)

\* The runs of the trade list: the index ranges a..b in which every trade
\* has a strictly negative P&L.
LosingRuns ==
    { r \in (1..Len(mt_pnls)) \X (1..Len(mt_pnls)) :
        /\ r[1] <= r[2]
        /\ \A k \in r[1]..r[2] : mt_pnls[k] < 0 }

LongestLosingRun ==
    IF LosingRuns = {} THEN 0
    ELSE LET longest == CHOOSE r \in LosingRuns :
                            \A q \in LosingRuns : r[2] - r[1] >= q[2] - q[1]
         IN  longest[2] - longest[1] + 1

\* C24: max_consecutive_losses is the length of the longest run of
\* consecutive trades with strictly negative P&L, a zero-P&L or winning
\* trade ending a run, and 0 when no trade has negative P&L.
C24_LongestLosingRun ==
    MetricsReturned =>
        /\ mt_out.max_consecutive_losses = LongestLosingRun
        /\ (\A k \in 1..Len(mt_pnls) : mt_pnls[k] >= 0)
              => mt_out.max_consecutive_losses = 0

\* A returned bundle for a list in which a zero-P&L trade separates a run
\* of two losses from a later loss.
C24_Witness ==
    /\ MetricsReturned
    /\ Len(mt_pnls) = 4
    /\ mt_pnls[1] < 0 /\ mt_pnls[2] < 0 /\ mt_pnls[3] = 0 /\ mt_pnls[4] < 0
    /\ mt_out.max_consecutive_losses = 2

-----------------------------------------------------------------------------
(* Market-making engine: src/lib/crypto/market_maker_engine.py             *)
(*                                                                         *)
(* Inventory is in whole contracts and skew_threshold in quarters.         *)
(* Prices are in 1/160 dollar, spreads in basis points of the mid price.   *)
(* The drawn values make every product and quotient below a whole number   *)
(* of these units, each a decimal of at most five places, so round(x, 8)   *)
(* returns x.  gamma, volatility, time_remaining and order_intensity enter *)
(* only through the products gamma * volatility^2 * time_remaining (the    *)
(* field risk, in price units per contract) and the Avellaneda-Stoikov     *)
(* sum of optimal_spread (the field as_spread_bps), which are drawn.       *)

MaxInventories == {0, 4}
SkewThresholdQuarters == {0, 2, 4}          \* 0, 0.5 and 1.0
MinSpreads == {5, 10}                       \* min_spread_bps
QuoteSize == 3                              \* quote_size, in contracts
MidPrices == {16000, 32000}                 \* $100 and $200
Inventories == -5..5
Risks == {0, 2}
AsSpreads == {5, 20}

MMParameters ==
    [max_inventory : MaxInventories,
     skew_threshold : SkewThresholdQuarters,
     quote_size : {QuoteSize},
     min_spread_bps : MinSpreads]

MMInputs ==
    [mid_price : MidPrices, inventory : Inventories, volatility_risk : Risks,
     as_spread_bps : AsSpreads]

\* reservation_price: mid - q * gamma * sigma^2 * T
reservation_price(in) == in.mid_price - in.inventory * in.volatility_risk

\* optimal_spread, in basis points: max(spread, min_spread)
optimal_spread(p, in) == Max(in.as_spread_bps, p.min_spread_bps)

NoSkew ==
    [raised |-> FALSE, should_skew |-> FALSE,
     bid_offset |-> [num |-> 0, den |-> 1],
     ask_offset |-> [num |-> 0, den |-> 1], reduce_side |-> "None"]

\* bid_offset and ask_offset (lines 156-166), in thousandths: skew_pct * 0.001
\* with the sign each branch gives it.
Offsets(inventory, pct) ==
    IF inventory > 0
    THEN [bid |-> [num |-> pct.num, den |-> pct.den],
          ask |-> [num |-> 0 - pct.num, den |-> pct.den]]
    ELSE [bid |-> [num |-> 0 - pct.num, den |-> pct.den],
          ask |-> [num |-> pct.num, den |-> pct.den]]

\* AvellanedaStoikovEngine.inventory_skew.  Quantities are in quarters of a
\* contract: threshold = max_inv * skew_threshold.
inventory_skew(p, inventory) ==
    LET max_inv   == 4 * p.max_inventory
        threshold == p.max_inventory * p.skew_threshold
        q         == 4 * Abs(inventory)
    IN  IF p.max_inventory <= 0 THEN NoSkew
        ELSE IF q <= threshold THEN NoSkew
        ELSE IF max_inv - threshold = 0
             THEN [NoSkew EXCEPT !.raised = TRUE]      \* ZeroDivisionError
        ELSE LET pct == [num |-> Min(q - threshold, max_inv - threshold),
                         den |-> max_inv - threshold]
                 off == Offsets(inventory, pct)
             IN  [raised |-> FALSE, should_skew |-> TRUE,
                  bid_offset |-> off.bid, ask_offset |-> off.ask,
                  reduce_side |->
                      IF inventory > 0
                      THEN IF q >= max_inv THEN "bid" ELSE "None"
                      ELSE IF q >= max_inv THEN "ask" ELSE "None"]

\* offset * mid_price, for an offset in thousandths.
Scaled(offset, mid) == (offset.num * mid) \div (1000 * offset.den)

\* spread_frac * mid_price for a spread in basis points.
SpreadAbs(bps, mid) == (bps * mid) \div 10000

QuoteRaised ==
    [raised |-> TRUE, bid_price |-> 0, ask_price |-> 0, bid_size |-> 0,
     ask_size |-> 0, spread_bps |-> 0]

\* AvellanedaStoikovEngine.generate_quotes.  spread_bps is in 0.01 bp.
generate_quotes(p, in) ==
    LET res_price  == reservation_price(in)
        spread_abs == SpreadAbs(optimal_spread(p, in), in.mid_price)
        skew       == inventory_skew(p, in.inventory)
        bid0       == res_price - spread_abs \div 2
                      + Scaled(skew.bid_offset, in.mid_price)
        ask0       == res_price + spread_abs \div 2
                      + Scaled(skew.ask_offset, in.mid_price)
        centre     == (bid0 + ask0) \div 2
        min_half   == SpreadAbs(p.min_spread_bps, in.mid_price) \div 2
        bid        == IF bid0 >= ask0 THEN centre - min_half ELSE bid0
        ask        == IF bid0 >= ask0 THEN centre + min_half ELSE ask0
    IN  IF skew.raised THEN QuoteRaised
        ELSE [raised |-> FALSE,
              bid_price |-> bid,
              ask_price |-> ask,
              bid_size |-> IF skew.reduce_side = "bid" THEN 0 ELSE p.quote_size,
              ask_size |-> IF skew.reduce_side = "ask" THEN 0 ELSE p.quote_size,
              spread_bps |-> IF in.mid_price > 0
                             THEN RoundDiv((ask - bid) * 1000000, in.mid_price)
                             ELSE 0]

MmInit ==
    /\ mm_params \in MMParameters
    /\ mm_in \in MMInputs
    /\ mm_skew = <<>>
    /\ mm_out = <<>>
    /\ mm_pc = "call"

\* inventory_skew called on the drawn inventory.
InventorySkew ==
    /\ mm_pc = "call"
    /\ mm_skew' = inventory_skew(mm_params, mm_in.inventory)
    /\ mm_pc' = "skew_returned"
    /\ UNCHANGED <<mm_params, mm_in, mm_out>>

\* generate_quotes called on the drawn market state.
GenerateQuotes ==
    /\ mm_pc = "call"
    /\ mm_out' = generate_quotes(mm_params, mm_in)
    /\ mm_pc' = "quotes_returned"
    /\ UNCHANGED <<mm_params, mm_in, mm_skew>>

MmIdle ==
    /\ mm_params = <<>>
    /\ mm_in = <<>>
    /\ mm_skew = <<>>
    /\ mm_out = <<>>
    /\ mm_pc = "idle"

-----------------------------------------------------------------------------
(* Claim about the inventory skew *)

\* The quotes of the same market state without the inventory offsets.
UnskewedBid ==
    reservation_price(mm_in)
    - SpreadAbs(optimal_spread(mm_params, mm_in), mm_in.mid_price) \div 2
UnskewedAsk ==
    reservation_price(mm_in)
    + SpreadAbs(optimal_spread(mm_params, mm_in), mm_in.mid_price) \div 2

PastThreshold ==
    4 * Abs(mm_in.inventory) > mm_params.max_inventory * mm_params.skew_threshold
AtLimit == Abs(mm_in.inventory) >= mm_params.max_inventory

\* C25: with inventory past skew_threshold * max_inventory, inventory_skew
\* and generate_quotes move both the bid and the ask down when long and
\* both up when short; with |inventory| >= max_inventory the size quoted on
\* the side that would increase the inventory is 0 (bid when long, ask when
\* short) and the other side keeps quote_size.
C25_SkewReducesPosition ==
    /\ (mm_pc = "skew_returned" /\ PastThreshold) =>
          /\ ~mm_skew.raised
          /\ mm_in.inventory > 0 =>
                mm_skew.bid_offset.num < 0 /\ mm_skew.ask_offset.num < 0
          /\ mm_in.inventory < 0 =>
                mm_skew.bid_offset.num > 0 /\ mm_skew.ask_offset.num > 0
    /\ (mm_pc = "quotes_returned" /\ PastThreshold) =>
          /\ ~mm_out.raised
          /\ mm_in.inventory > 0 =>
                mm_out.bid_price < UnskewedBid /\ mm_out.ask_price < UnskewedAsk
          /\ mm_in.inventory < 0 =>
                mm_out.bid_price > UnskewedBid /\ mm_out.ask_price > UnskewedAsk
    /\ (mm_pc = "quotes_returned" /\ AtLimit) =>
          /\ ~mm_out.raised
          /\ mm_in.inventory > 0 =>
                mm_out.bid_size = 0 /\ mm_out.ask_size = mm_params.quote_size
          /\ mm_in.inventory < 0 =>
                mm_out.ask_size = 0 /\ mm_out.bid_size = mm_params.quote_size

-----------------------------------------------------------------------------
(* Claim about resume_tracking *)

\* resume_tracking has to refuse: the tracker is not paused or the budget
\* is used up.
MustRefuse == ~tracker.pausedAt \/ tracker.spent >= tracker.budget

\* C26: a resume_tracking call on a tracker that is not paused or has
\* spent >= budget returns success = False and leaves the stored data as
\* they were; a call changes the data only when the tracker is paused with
\* spent < budget, and then it clears pausedAt and pauseReason and nothing
\* else, returning success = True.
C26_ResumeFrame ==
    [][ ct_last'.op = "resume_tracking" =>
          /\ MustRefuse => (~ct_last'.success /\ tracker' = tracker)
          /\ ~ct_last'.success => tracker' = tracker
          /\ ct_last'.success =>
                /\ ~MustRefuse
                /\ ~tracker'.pausedAt
                /\ tracker'.pauseReason = "none"
                /\ tracker' = [tracker EXCEPT !.pausedAt = tracker'.pausedAt,
                                              !.pauseReason = tracker'.pauseReason]
      ]_vars

\* A paused tracker with recorded spending below its budget has been
\* resumed.
C26_Witness ==
    /\ ct_last.op = "resume_tracking"
    /\ ct_last.success
    /\ ct_last.was_paused
    /\ ~tracker.pausedAt
    /\ tracker.pauseReason = "none"
    /\ tracker.transactions > 0
    /\ 0 < tracker.spent /\ tracker.spent < tracker.budget

\* A resume_tracking call has been refused on a tracker that is paused
\* with spent >= budget, which stays paused.
C26_RefusedOverBudget ==
    /\ ct_last.op = "resume_tracking"
    /\ ~ct_last.success
    /\ tracker.pausedAt
    /\ tracker.spent >= tracker.budget

-----------------------------------------------------------------------------
(* The idea registry, one call at a time (src/scripts/claim-idea.py)       *)
(*                                                                         *)
(* claim_idea with its force flag, update_claim_status and                 *)
(* cleanup_stale_claims, called one after another, so every lock is        *)
(* granted and every write reaches the file before the next call reads     *)
(* it.  The registry is the claims list of the file; a claim record keeps  *)
(* the fields the status logic writes.  Timestamps are left out, except    *)
(* that cleanup_stale_claims finds any set of in_progress claims older     *)
(* than its cutoff.                                                        *)

RegistryPanes == {1, 2}

RegistryIdeas == IdeaSpellings \cup {"macd cross"}

RegistryStatuses == ClaimStatuses \cup {"stale"}

\* The statuses update_claim_status is called with by release_claim,
\* complete_claim and reject_claim.
UpdateStatuses == {"released", "completed", "rejected"}

new_claim(pane, idea) ==
    [idea |-> idea, pane |-> pane, status |-> "in_progress",
     forceClaimed |-> FALSE, reclaimedFrom |-> "none"]

\* A claim_idea in which force also takes a completed claim.
claim_idea_ForceTakesCompleted(claims, pane, idea, force) ==
    LET k == find_claim(claims, idea)
        taken == [claims EXCEPT ![k].pane = pane, ![k].status = "in_progress"]
    IN  IF k = 0
        THEN [success |-> TRUE, claims |-> Append(claims, new_claim(pane, idea))]
        ELSE IF claims[k].status \in {"completed", "in_progress"}
        THEN IF force
             THEN [success |-> TRUE,
                   claims |-> [taken EXCEPT ![k].forceClaimed = TRUE]]
             ELSE [success |-> FALSE, claims |-> claims]
        ELSE IF claims[k].status = "rejected"
        THEN [success |-> TRUE,
              claims |-> [taken EXCEPT ![k].reclaimedFrom = "rejected"]]
        ELSE [success |-> TRUE, claims |-> taken]

\* claim_idea, lines 147-202: whether the call succeeds and the claims list
\* the file holds afterwards.
claim_idea(claims, pane, idea, force) ==
    LET k == find_claim(claims, idea)
        taken == [claims EXCEPT ![k].pane = pane, ![k].status = "in_progress"]
    IN  IF k = 0
        THEN [success |-> TRUE, claims |-> Append(claims, new_claim(pane, idea))]
        ELSE IF claims[k].status = "completed"
        THEN [success |-> FALSE, claims |-> claims]
        ELSE IF claims[k].status = "in_progress"
        THEN IF force
             THEN [success |-> TRUE,
                   claims |-> [taken EXCEPT ![k].forceClaimed = TRUE]]
             ELSE [success |-> FALSE, claims |-> claims]
        ELSE IF claims[k].status = "rejected"
        THEN [success |-> TRUE,
              claims |-> [taken EXCEPT ![k].reclaimedFrom = "rejected"]]
        ELSE [success |-> TRUE, claims |-> taken]

\* update_claim_status, lines 223-254.
update_claim_status(claims, idea, status) ==
    LET k == find_claim(claims, idea)
    IN  IF k = 0
        THEN [success |-> FALSE, claims |-> claims]
        ELSE [success |-> TRUE, claims |-> [claims EXCEPT ![k].status = status]]

\* cleanup_stale_claims, lines 283-322, when the claims at the indices in
\* old are the ones claimed before the cutoff.
cleanup_stale_claims(claims, old) ==
    [k \in 1..Len(claims) |->
        IF claims[k].status = "in_progress" /\ k \in old
        THEN [claims[k] EXCEPT !.status = "stale"]
        ELSE claims[k]]

NoCall ==
    [op |-> "none", pane |-> 0, idea |-> "", force |-> FALSE,
     success |-> FALSE, before |-> <<>>]

RegistryInit ==
    /\ registry = <<>>
    /\ rg_last = NoCall

ClaimIdea ==
    \E pane \in RegistryPanes, idea \in RegistryIdeas, force \in BOOLEAN :
        LET r == claim_idea(registry, pane, idea, force)
        IN  /\ registry' = r.claims
            /\ rg_last' = [op |-> "claim_idea", pane |-> pane, idea |-> idea,
                           force |-> force, success |-> r.success,
                           before |-> registry]

UpdateClaimStatus ==
    \E idea \in RegistryIdeas, status \in UpdateStatuses :
        LET r == update_claim_status(registry, idea, status)
        IN  /\ registry' = r.claims
            /\ rg_last' = [op |-> "update_claim_status", pane |-> 0,
                           idea |-> idea, force |-> FALSE,
                           success |-> r.success, before |-> registry]

CleanupStaleClaims ==
    \E old \in SUBSET (1..Len(registry)) :
        /\ registry' = cleanup_stale_claims(registry, old)
        /\ rg_last' = [op |-> "cleanup_stale_claims", pane |-> 0, idea |-> "",
                       force |-> FALSE, success |-> TRUE, before |-> registry]

RegistryIdle ==
    /\ registry = <<>>
    /\ rg_last = <<>>

-----------------------------------------------------------------------------
(* Claim about the statuses of claim_idea *)

\* The record of the idea of the last call before the call, as an index
\* into the registry the call found (0 when there was none).
Found == find_claim(rg_last.before, rg_last.idea)

LastWasClaim == rg_last.op = "claim_idea"

\* The indices of the records of the idea of the last call.
RecordsOfLastIdea ==
    { k \in 1..Len(registry) :
        normalize_idea(registry[k].idea) = normalize_idea(rg_last.idea) }

\* C27: a claim_idea call on a completed claim returns success = False and
\* leaves the registry as it was, with and without force; an in_progress
\* claim changes its pane only in a call with force = True; a call on a
\* rejected, released or stale claim succeeds for any pane, sets the
\* record to in_progress under that pane and adds no record, so that the
\* registry still holds one record of the normalized idea.
C27_StatusRules ==
    /\ rg_last.op \in {"update_claim_status", "cleanup_stale_claims"} =>
          /\ Len(registry) = Len(rg_last.before)
          /\ \A k \in 1..Len(registry) :
                registry[k].pane = rg_last.before[k].pane
    /\ LastWasClaim =>
           /\ (Found # 0 /\ rg_last.before[Found].status = "completed") =>
                 /\ ~rg_last.success
                 /\ registry = rg_last.before
           /\ \A k \in 1..Len(rg_last.before) :
                 (rg_last.before[k].status = "in_progress"
                    /\ registry[k].pane # rg_last.before[k].pane) => rg_last.force
           /\ (Found # 0 /\ rg_last.before[Found].status = "in_progress"
                 /\ ~rg_last.force) =>
                 /\ ~rg_last.success
                 /\ registry = rg_last.before
           /\ (Found # 0 /\ rg_last.before[Found].status
                               \in {"rejected", "released", "stale"}) =>
                 /\ rg_last.success
                 /\ registry[Found].status = "in_progress"
                 /\ registry[Found].pane = rg_last.pane
                 /\ Len(registry) = Len(rg_last.before)
                 /\ RecordsOfLastIdea = {Found}
                 /\ \A k \in 1..Len(registry) :
                       k # Found => registry[k] = rg_last.before[k]

\* A call with force = True by another pane, in another spelling of the
\* idea, has been refused on a completed claim.
C27_Witness ==
    /\ LastWasClaim
    /\ Found # 0
    /\ rg_last.before[Found].status = "completed"
    /\ rg_last.before[Found].pane # rg_last.pane
    /\ rg_last.before[Found].idea # rg_last.idea
    /\ rg_last.force
    /\ ~rg_last.success
    /\ Len(registry) = 2

\* A stale claim has been taken over by another pane without force.
C27_StaleReclaimed ==
    /\ LastWasClaim
    /\ Found # 0
    /\ rg_last.before[Found].status = "stale"
    /\ rg_last.before[Found].pane # rg_last.pane
    /\ ~rg_last.force
    /\ rg_last.success
    /\ registry[Found].pane = rg_last.pane

-----------------------------------------------------------------------------
(* Claim about the termination of run_walk_forward *)

\* C28: for every integer train_bars, test_bars and step_bars (step_bars
\* defaulting to test_bars) and every series length, run_walk_forward
\* leaves its while loop: it returns a report, or an exception raised by
\* an evaluation leaves it.
C28_Terminates == <>(wf_pc # "loop")

\* The bound MaxFolds cuts a loop short only when start does not advance:
\* a behaviour that stays in the loop for ever is one of the code, whose
\* loop condition stays true, and not one the bound makes.
CutShortOnlyWhenStuck ==
    (wf_pc = "loop" /\ FoldFits(start) /\ fold_num = MaxFolds) => step_bars <= 0

\* With step_bars > 0 the call does leave the loop.
AdvancingLoopTerminates == (wf_pc = "loop" /\ step_bars > 0) ~> (wf_pc # "loop")

\* Every completed iteration moves start forward (the variant of the loop).
EveryIterationAdvances ==
    [][(fold_num' > fold_num /\ wf_pc' = "loop") => start' > start]_vars

\* start does not advance although the window at start fits, and the loop
\* has run more often than any advancing loop does.
C28_LoopDoesNotAdvance ==
    /\ wf_pc = "loop"
    /\ step_bars <= 0
    /\ FoldFits(start)
    /\ fold_num = MaxFolds

-----------------------------------------------------------------------------
(* Round-trip cost of a perpetual trade: calculate_round_trip_cost         *)
(* (src/lib/crypto/cost_model.py)                                          *)
(*                                                                         *)
(* Rates and fractions are counted in 1e-6, size_usd in dollars and USD    *)
(* amounts in 1e-6 dollar, so that rate * size_usd is an amount.  The      *)
(* sizes drawn divide the gas amounts drawn, so gas_pct is exact.          *)

\* DEFAULT_SLIPPAGE and the fallback of DEFAULT_SLIPPAGE.get.
DEFAULT_SLIPPAGE ==
    [e \in {"binance", "bybit", "okx", "hyperliquid"} |->
        CASE e = "binance" -> 50
          [] e = "bybit" -> 70
          [] e = "okx" -> 70
          [] e = "hyperliquid" -> 150]

\* DEFAULT_GAS_USD, in 1e-6 dollar.
DEFAULT_GAS_USD ==
    [e \in {"binance", "bybit", "okx", "hyperliquid"} |->
        IF e = "hyperliquid" THEN 50000 ELSE 0]

SizesUsd == {1000, 10000}
HoldHours == {0, 8, 12, 24}
FundingRates == {-100, 0, 100}
VipTiers == {0, 5}
SlippageOverrides == {<<>>, <<0>>, <<200>>}            \* None, 0.0, 0.0002
GasOverrides == {<<>>, <<0>>, <<1000000>>}             \* None, 0.0, 1.00

RoundTripArgs ==
    [exchange : ExchangeNames, size_usd : SizesUsd, hold_hours : HoldHours,
     funding_rate_8h : FundingRates, vip_tier : VipTiers, is_maker : BOOLEAN,
     slippage_override : SlippageOverrides, gas_override : GasOverrides]

\* calculate_funding_drag: funding_rate_8h * ceil(hold_hours / 8)
calculate_funding_drag(funding_rate_8h, hold_hours) ==
    LET settlements == IF hold_hours > 0 THEN (hold_hours + 7) \div 8 ELSE 0
    IN  funding_rate_8h * settlements

\* calculate_round_trip_cost, lines 208-277.
calculate_round_trip_cost(a) ==
    LET exchange_lower     == Lower(a.exchange)
        fees               == get_fee_schedule(exchange_lower, a.vip_tier).schedule
        entry_fee_pct      == IF a.is_maker THEN fees.maker ELSE fees.taker
        exit_fee_pct       == IF a.is_maker THEN fees.maker ELSE fees.taker
        total_fee_pct      == entry_fee_pct + exit_fee_pct
        funding_pct        == calculate_funding_drag(a.funding_rate_8h, a.hold_hours)
        slippage_pct       == IF a.slippage_override # <<>>
                              THEN a.slippage_override[1]
                              ELSE Get(DEFAULT_SLIPPAGE, exchange_lower, 100)
        total_slippage_pct == slippage_pct * 2
        gas_usd            == IF a.gas_override # <<>>
                              THEN a.gas_override[1]
                              ELSE Get(DEFAULT_GAS_USD, exchange_lower, 0)
        total_gas_usd      == gas_usd * 2
        gas_pct            == IF a.size_usd > 0
                              THEN total_gas_usd \div a.size_usd ELSE 0
        total_cost_pct     == total_fee_pct + funding_pct + total_slippage_pct
                              + gas_pct
        total_cost_usd     == total_cost_pct * a.size_usd + total_gas_usd
    IN  [maker_fee         |-> IF a.is_maker THEN fees.maker * a.size_usd * 2 ELSE 0,
         taker_fee         |-> IF ~a.is_maker THEN fees.taker * a.size_usd * 2 ELSE 0,
         funding_drag      |-> funding_pct * a.size_usd,
         slippage_estimate |-> total_slippage_pct * a.size_usd,
         gas_fee           |-> total_gas_usd,
         total_cost_pct    |-> total_cost_pct,
         total_cost_usd    |-> total_cost_usd]

RtInit ==
    /\ rt_args \in RoundTripArgs
    /\ rt_out = <<>>
    /\ rt_pc = "call"

CalculateRoundTripCost ==
    /\ rt_pc = "call"
    /\ rt_out' = calculate_round_trip_cost(rt_args)
    /\ rt_pc' = "returned"
    /\ UNCHANGED rt_args

RtIdle ==
    /\ rt_args = <<>>
    /\ rt_out = <<>>
    /\ rt_pc = "idle"

-----------------------------------------------------------------------------
(* Claim about calculate_round_trip_cost *)

RtReturned == rt_pc = "returned"

\* C29: for every exchange, size_usd > 0, hold time, funding rate, VIP
\* tier, maker/taker choice and slippage or gas override, the returned
\* breakdown adds up: total_cost_usd is the sum of maker_fee, taker_fee,
\* funding_drag, slippage_estimate and gas_fee, with gas counted once, and
\* total_cost_usd = total_cost_pct * size_usd.
C29_BreakdownAddsUp ==
    RtReturned =>
        /\ rt_out.total_cost_usd =
              rt_out.maker_fee + rt_out.taker_fee + rt_out.funding_drag
              + rt_out.slippage_estimate + rt_out.gas_fee
        /\ rt_out.total_cost_usd = rt_out.total_cost_pct * rt_args.size_usd

\* Without gas the breakdown does add up: the difference is the gas alone.
C29_AddsUpWithoutGas ==
    (RtReturned /\ rt_out.gas_fee = 0) =>
        /\ rt_out.total_cost_usd =
              rt_out.maker_fee + rt_out.taker_fee + rt_out.funding_drag
              + rt_out.slippage_estimate
        /\ rt_out.total_cost_usd = rt_out.total_cost_pct * rt_args.size_usd

\* With gas, total_cost_usd holds the gas twice.
C29_GasCountedTwice ==
    RtReturned =>
        rt_out.total_cost_usd =
            rt_out.maker_fee + rt_out.taker_fee + rt_out.funding_drag
            + rt_out.slippage_estimate + 2 * rt_out.gas_fee

-----------------------------------------------------------------------------
(* Specifications *)

\* simulate_trades on every drawn frame and cost model.
SimNext ==
    \/ /\ LoopStep
       /\ UNCHANGED <<costVars, gradeVars, wfVars, mainVars,
                         metricsVars, feeVars, evtVars, claimVars,
                         trackerVars, breakerVars, mmVars,
                         registryVars, rtVars>>
    \/ /\ Flush
       /\ UNCHANGED <<costVars, gradeVars, wfVars, mainVars,
                         metricsVars, feeVars, evtVars, claimVars,
                         trackerVars, breakerVars, mmVars,
                         registryVars, rtVars>>

InitSim ==
    /\ SimInit
    /\ CostIdle
    /\ GradeIdle
    /\ WfIdle
    /\ MainIdle
    /\ MetricsIdle
    /\ FeeIdle
    /\ EvtIdle
    /\ ClaimIdle
    /\ TrackerIdle
    /\ BreakerIdle
    /\ MmIdle
    /\ RegistryIdle
    /\ RtIdle

SpecSim == InitSim /\ [][SimNext]_vars

\* compute_round_trip_cost on every drawn model, notional and factor.
CostNext ==
    \/ /\ ComputeCost
       /\ UNCHANGED <<simVars, gradeVars, wfVars, mainVars,
                         metricsVars, feeVars, evtVars, claimVars,
                         trackerVars, breakerVars, mmVars,
                         registryVars, rtVars>>

InitCost ==
    /\ CostInit
    /\ SimIdle
    /\ GradeIdle
    /\ WfIdle
    /\ MainIdle
    /\ MetricsIdle
    /\ FeeIdle
    /\ EvtIdle
    /\ ClaimIdle
    /\ TrackerIdle
    /\ BreakerIdle
    /\ MmIdle
    /\ RegistryIdle
    /\ RtIdle

SpecCost == InitCost /\ [][CostNext]_vars

\* check_overfit_flags then grade_result on every drawn metrics bundle.
GradeNext ==
    \/ /\ CheckOverfitFlags
       /\ UNCHANGED <<simVars, costVars, wfVars, mainVars,
                         metricsVars, feeVars, evtVars, claimVars,
                         trackerVars, breakerVars, mmVars,
                         registryVars, rtVars>>
    \/ /\ GradeResult
       /\ UNCHANGED <<simVars, costVars, wfVars, mainVars,
                         metricsVars, feeVars, evtVars, claimVars,
                         trackerVars, breakerVars, mmVars,
                         registryVars, rtVars>>

InitGrade ==
    /\ GradeInit
    /\ SimIdle
    /\ CostIdle
    /\ WfIdle
    /\ MainIdle
    /\ MetricsIdle
    /\ FeeIdle
    /\ EvtIdle
    /\ ClaimIdle
    /\ TrackerIdle
    /\ BreakerIdle
    /\ MmIdle
    /\ RegistryIdle
    /\ RtIdle

SpecGrade == InitGrade /\ [][GradeNext]_vars

\* run_walk_forward on every drawn series length, window configuration, params argument and strategy kind.
WfNext ==
    \/ /\ WfFold
       /\ UNCHANGED <<simVars, costVars, gradeVars, mainVars,
                         metricsVars, feeVars, evtVars, claimVars,
                         trackerVars, breakerVars, mmVars,
                         registryVars, rtVars>>
    \/ /\ WfFoldRaises
       /\ UNCHANGED <<simVars, costVars, gradeVars, mainVars,
                         metricsVars, feeVars, evtVars, claimVars,
                         trackerVars, breakerVars, mmVars,
                         registryVars, rtVars>>
    \/ /\ WfReturn
       /\ UNCHANGED <<simVars, costVars, gradeVars, mainVars,
                         metricsVars, feeVars, evtVars, claimVars,
                         trackerVars, breakerVars, mmVars,
                         registryVars, rtVars>>

InitWf ==
    /\ WfInit
    /\ SimIdle
    /\ CostIdle
    /\ GradeIdle
    /\ MainIdle
    /\ MetricsIdle
    /\ FeeIdle
    /\ EvtIdle
    /\ ClaimIdle
    /\ TrackerIdle
    /\ BreakerIdle
    /\ MmIdle
    /\ RegistryIdle
    /\ RtIdle

SpecWf == InitWf /\ [][WfNext]_vars

\* run_walk_forward on every drawn integer window configuration; an iteration that can run does run, and so does the return.
InitWfAny ==
    /\ WfAnyInit
    /\ SimIdle
    /\ CostIdle
    /\ GradeIdle
    /\ MainIdle
    /\ MetricsIdle
    /\ FeeIdle
    /\ EvtIdle
    /\ ClaimIdle
    /\ TrackerIdle
    /\ BreakerIdle
    /\ MmIdle
    /\ RegistryIdle
    /\ RtIdle

WfFoldStep ==
    /\ WfFold
    /\ UNCHANGED <<simVars, costVars, gradeVars, mainVars,
                      metricsVars, feeVars, evtVars, claimVars,
                      trackerVars, breakerVars, mmVars,
                      registryVars, rtVars>>

WfReturnStep ==
    /\ WfReturn
    /\ UNCHANGED <<simVars, costVars, gradeVars, mainVars,
                      metricsVars, feeVars, evtVars, claimVars,
                      trackerVars, breakerVars, mmVars,
                      registryVars, rtVars>>

SpecWfAny ==
    /\ InitWfAny
    /\ [][WfNext]_vars
    /\ WF_vars(WfFoldStep)
    /\ WF_vars(WfReturnStep)

\* main on every drawn combination of option values and outcome of the calls it makes.
MainNext ==
    \/ /\ ParseCostModel
       /\ UNCHANGED <<simVars, costVars, gradeVars, wfVars,
                         metricsVars, feeVars, evtVars, claimVars,
                         trackerVars, breakerVars, mmVars,
                         registryVars, rtVars>>
    \/ /\ ParseParams
       /\ UNCHANGED <<simVars, costVars, gradeVars, wfVars,
                         metricsVars, feeVars, evtVars, claimVars,
                         trackerVars, breakerVars, mmVars,
                         registryVars, rtVars>>
    \/ /\ ParseWalkForward
       /\ UNCHANGED <<simVars, costVars, gradeVars, wfVars,
                         metricsVars, feeVars, evtVars, claimVars,
                         trackerVars, breakerVars, mmVars,
                         registryVars, rtVars>>
    \/ /\ CheckRequiredKeys
       /\ UNCHANGED <<simVars, costVars, gradeVars, wfVars,
                         metricsVars, feeVars, evtVars, claimVars,
                         trackerVars, breakerVars, mmVars,
                         registryVars, rtVars>>
    \/ /\ LoadData
       /\ UNCHANGED <<simVars, costVars, gradeVars, wfVars,
                         metricsVars, feeVars, evtVars, claimVars,
                         trackerVars, breakerVars, mmVars,
                         registryVars, rtVars>>
    \/ /\ Compute
       /\ UNCHANGED <<simVars, costVars, gradeVars, wfVars,
                         metricsVars, feeVars, evtVars, claimVars,
                         trackerVars, breakerVars, mmVars,
                         registryVars, rtVars>>
    \/ /\ Emit
       /\ UNCHANGED <<simVars, costVars, gradeVars, wfVars,
                         metricsVars, feeVars, evtVars, claimVars,
                         trackerVars, breakerVars, mmVars,
                         registryVars, rtVars>>

InitMain ==
    /\ MainInit
    /\ SimIdle
    /\ CostIdle
    /\ GradeIdle
    /\ WfIdle
    /\ MetricsIdle
    /\ FeeIdle
    /\ EvtIdle
    /\ ClaimIdle
    /\ TrackerIdle
    /\ BreakerIdle
    /\ MmIdle
    /\ RegistryIdle
    /\ RtIdle

SpecMain == InitMain /\ [][MainNext]_vars

\* compute_metrics on every drawn trade list.
MetricsNext ==
    \/ /\ ComputeMetrics
       /\ UNCHANGED <<simVars, costVars, gradeVars, wfVars,
                         mainVars, feeVars, evtVars, claimVars,
                         trackerVars, breakerVars, mmVars,
                         registryVars, rtVars>>

InitMetrics ==
    /\ MetricsInit
    /\ SimIdle
    /\ CostIdle
    /\ GradeIdle
    /\ WfIdle
    /\ MainIdle
    /\ FeeIdle
    /\ EvtIdle
    /\ ClaimIdle
    /\ TrackerIdle
    /\ BreakerIdle
    /\ MmIdle
    /\ RegistryIdle
    /\ RtIdle

SpecMetrics == InitMetrics /\ [][MetricsNext]_vars

\* get_fee_schedule on every drawn exchange name and tier.
FeeNext ==
    \/ /\ GetFeeSchedule
       /\ UNCHANGED <<simVars, costVars, gradeVars, wfVars,
                         mainVars, metricsVars, evtVars, claimVars,
                         trackerVars, breakerVars, mmVars,
                         registryVars, rtVars>>

InitFee ==
    /\ FeeInit
    /\ SimIdle
    /\ CostIdle
    /\ GradeIdle
    /\ WfIdle
    /\ MainIdle
    /\ MetricsIdle
    /\ EvtIdle
    /\ ClaimIdle
    /\ TrackerIdle
    /\ BreakerIdle
    /\ MmIdle
    /\ RegistryIdle
    /\ RtIdle

SpecFee == InitFee /\ [][FeeNext]_vars

\* evt_var on every drawn returns array, confidence level and outcome of the GPD fit.
EvtNext ==
    \/ /\ EvtVar
       /\ UNCHANGED <<simVars, costVars, gradeVars, wfVars,
                         mainVars, metricsVars, feeVars, claimVars,
                         trackerVars, breakerVars, mmVars,
                         registryVars, rtVars>>

InitEvt ==
    /\ EvtInit
    /\ SimIdle
    /\ CostIdle
    /\ GradeIdle
    /\ WfIdle
    /\ MainIdle
    /\ MetricsIdle
    /\ FeeIdle
    /\ ClaimIdle
    /\ TrackerIdle
    /\ BreakerIdle
    /\ MmIdle
    /\ RegistryIdle
    /\ RtIdle

SpecEvt == InitEvt /\ [][EvtNext]_vars

\* Concurrent claim_idea calls of the panes, from every drawn registry.
ClaimNext ==
    \/ /\ \E p \in Panes : CheckExists(p)
       /\ UNCHANGED <<simVars, costVars, gradeVars, wfVars,
                         mainVars, metricsVars, feeVars, evtVars,
                         trackerVars, breakerVars, mmVars,
                         registryVars, rtVars>>
    \/ /\ \E p \in Panes : LoadClaims(p)
       /\ UNCHANGED <<simVars, costVars, gradeVars, wfVars,
                         mainVars, metricsVars, feeVars, evtVars,
                         trackerVars, breakerVars, mmVars,
                         registryVars, rtVars>>
    \/ /\ \E p \in Panes : CreateClose(p)
       /\ UNCHANGED <<simVars, costVars, gradeVars, wfVars,
                         mainVars, metricsVars, feeVars, evtVars,
                         trackerVars, breakerVars, mmVars,
                         registryVars, rtVars>>
    \/ /\ \E p \in Panes : SaveOpen(p)
       /\ UNCHANGED <<simVars, costVars, gradeVars, wfVars,
                         mainVars, metricsVars, feeVars, evtVars,
                         trackerVars, breakerVars, mmVars,
                         registryVars, rtVars>>
    \/ /\ \E p \in Panes : SaveClose(p)
       /\ UNCHANGED <<simVars, costVars, gradeVars, wfVars,
                         mainVars, metricsVars, feeVars, evtVars,
                         trackerVars, breakerVars, mmVars,
                         registryVars, rtVars>>
    \/ /\ \E p \in Panes : OpenFile(p)
       /\ UNCHANGED <<simVars, costVars, gradeVars, wfVars,
                         mainVars, metricsVars, feeVars, evtVars,
                         trackerVars, breakerVars, mmVars,
                         registryVars, rtVars>>
    \/ /\ \E p \in Panes : TryLock(p)
       /\ UNCHANGED <<simVars, costVars, gradeVars, wfVars,
                         mainVars, metricsVars, feeVars, evtVars,
                         trackerVars, breakerVars, mmVars,
                         registryVars, rtVars>>
    \/ /\ \E p \in Panes : ReadFile(p)
       /\ UNCHANGED <<simVars, costVars, gradeVars, wfVars,
                         mainVars, metricsVars, feeVars, evtVars,
                         trackerVars, breakerVars, mmVars,
                         registryVars, rtVars>>
    \/ /\ \E p \in Panes : UpdateClaims(p)
       /\ UNCHANGED <<simVars, costVars, gradeVars, wfVars,
                         mainVars, metricsVars, feeVars, evtVars,
                         trackerVars, breakerVars, mmVars,
                         registryVars, rtVars>>
    \/ /\ \E p \in Panes : ReleaseLock(p)
       /\ UNCHANGED <<simVars, costVars, gradeVars, wfVars,
                         mainVars, metricsVars, feeVars, evtVars,
                         trackerVars, breakerVars, mmVars,
                         registryVars, rtVars>>
    \/ /\ \E p \in Panes : CloseFile(p)
       /\ UNCHANGED <<simVars, costVars, gradeVars, wfVars,
                         mainVars, metricsVars, feeVars, evtVars,
                         trackerVars, breakerVars, mmVars,
                         registryVars, rtVars>>

InitClaim ==
    /\ ClaimInit
    /\ SimIdle
    /\ CostIdle
    /\ GradeIdle
    /\ WfIdle
    /\ MainIdle
    /\ MetricsIdle
    /\ FeeIdle
    /\ EvtIdle
    /\ TrackerIdle
    /\ BreakerIdle
    /\ MmIdle
    /\ RegistryIdle
    /\ RtIdle

SpecClaim == InitClaim /\ [][ClaimNext]_vars

\* Every sequence of cost tracker operations from the initial data.
TrackerNext ==
    \/ /\ AddCost
       /\ UNCHANGED <<simVars, costVars, gradeVars, wfVars,
                         mainVars, metricsVars, feeVars, evtVars,
                         claimVars, breakerVars, mmVars,
                         registryVars, rtVars>>
    \/ /\ SetBudget
       /\ UNCHANGED <<simVars, costVars, gradeVars, wfVars,
                         mainVars, metricsVars, feeVars, evtVars,
                         claimVars, breakerVars, mmVars,
                         registryVars, rtVars>>
    \/ /\ PauseTracking
       /\ UNCHANGED <<simVars, costVars, gradeVars, wfVars,
                         mainVars, metricsVars, feeVars, evtVars,
                         claimVars, breakerVars, mmVars,
                         registryVars, rtVars>>
    \/ /\ ResumeTracking
       /\ UNCHANGED <<simVars, costVars, gradeVars, wfVars,
                         mainVars, metricsVars, feeVars, evtVars,
                         claimVars, breakerVars, mmVars,
                         registryVars, rtVars>>
    \/ /\ ResetTracking
       /\ UNCHANGED <<simVars, costVars, gradeVars, wfVars,
                         mainVars, metricsVars, feeVars, evtVars,
                         claimVars, breakerVars, mmVars,
                         registryVars, rtVars>>

InitTracker ==
    /\ TrackerInit
    /\ SimIdle
    /\ CostIdle
    /\ GradeIdle
    /\ WfIdle
    /\ MainIdle
    /\ MetricsIdle
    /\ FeeIdle
    /\ EvtIdle
    /\ ClaimIdle
    /\ BreakerIdle
    /\ MmIdle
    /\ RegistryIdle
    /\ RtIdle

SpecTracker == InitTracker /\ [][TrackerNext]_vars

\* Concurrent _call invocations on one adapter, with the clock advancing.
BreakerNext ==
    \/ /\ Tick
       /\ UNCHANGED <<simVars, costVars, gradeVars, wfVars,
                         mainVars, metricsVars, feeVars, evtVars,
                         claimVars, trackerVars, mmVars,
                         registryVars, rtVars>>
    \/ /\ AllowRequest
       /\ UNCHANGED <<simVars, costVars, gradeVars, wfVars,
                         mainVars, metricsVars, feeVars, evtVars,
                         claimVars, trackerVars, mmVars,
                         registryVars, rtVars>>
    \/ /\ \E c \in Coroutines : CallBegin(c)
       /\ UNCHANGED <<simVars, costVars, gradeVars, wfVars,
                         mainVars, metricsVars, feeVars, evtVars,
                         claimVars, trackerVars, mmVars,
                         registryVars, rtVars>>
    \/ /\ \E c \in Coroutines : CallSucceeds(c)
       /\ UNCHANGED <<simVars, costVars, gradeVars, wfVars,
                         mainVars, metricsVars, feeVars, evtVars,
                         claimVars, trackerVars, mmVars,
                         registryVars, rtVars>>
    \/ /\ \E c \in Coroutines : CallFails(c)
       /\ UNCHANGED <<simVars, costVars, gradeVars, wfVars,
                         mainVars, metricsVars, feeVars, evtVars,
                         claimVars, trackerVars, mmVars,
                         registryVars, rtVars>>
    \/ /\ \E c \in Coroutines : CallCancelled(c)
       /\ UNCHANGED <<simVars, costVars, gradeVars, wfVars,
                         mainVars, metricsVars, feeVars, evtVars,
                         claimVars, trackerVars, mmVars,
                         registryVars, rtVars>>

InitBreaker ==
    /\ BreakerInit
    /\ SimIdle
    /\ CostIdle
    /\ GradeIdle
    /\ WfIdle
    /\ MainIdle
    /\ MetricsIdle
    /\ FeeIdle
    /\ EvtIdle
    /\ ClaimIdle
    /\ TrackerIdle
    /\ MmIdle
    /\ RegistryIdle
    /\ RtIdle

SpecBreaker == InitBreaker /\ [][BreakerNext]_vars

\* inventory_skew and generate_quotes on every drawn parameter set and market state.
MmNext ==
    \/ /\ InventorySkew
       /\ UNCHANGED <<simVars, costVars, gradeVars, wfVars,
                         mainVars, metricsVars, feeVars, evtVars,
                         claimVars, trackerVars, breakerVars,
                         registryVars, rtVars>>
    \/ /\ GenerateQuotes
       /\ UNCHANGED <<simVars, costVars, gradeVars, wfVars,
                         mainVars, metricsVars, feeVars, evtVars,
                         claimVars, trackerVars, breakerVars,
                         registryVars, rtVars>>

InitMm ==
    /\ MmInit
    /\ SimIdle
    /\ CostIdle
    /\ GradeIdle
    /\ WfIdle
    /\ MainIdle
    /\ MetricsIdle
    /\ FeeIdle
    /\ EvtIdle
    /\ ClaimIdle
    /\ TrackerIdle
    /\ BreakerIdle
    /\ RegistryIdle
    /\ RtIdle

SpecMm == InitMm /\ [][MmNext]_vars

\* Every sequence of claim_idea, update_claim_status and cleanup_stale_claims calls from the empty registry.
RegistryNext ==
    \/ /\ ClaimIdea
       /\ UNCHANGED <<simVars, costVars, gradeVars, wfVars,
                         mainVars, metricsVars, feeVars, evtVars,
                         claimVars, trackerVars, breakerVars,
                         mmVars, rtVars>>
    \/ /\ UpdateClaimStatus
       /\ UNCHANGED <<simVars, costVars, gradeVars, wfVars,
                         mainVars, metricsVars, feeVars, evtVars,
                         claimVars, trackerVars, breakerVars,
                         mmVars, rtVars>>
    \/ /\ CleanupStaleClaims
       /\ UNCHANGED <<simVars, costVars, gradeVars, wfVars,
                         mainVars, metricsVars, feeVars, evtVars,
                         claimVars, trackerVars, breakerVars,
                         mmVars, rtVars>>

InitRegistry ==
    /\ RegistryInit
    /\ SimIdle
    /\ CostIdle
    /\ GradeIdle
    /\ WfIdle
    /\ MainIdle
    /\ MetricsIdle
    /\ FeeIdle
    /\ EvtIdle
    /\ ClaimIdle
    /\ TrackerIdle
    /\ BreakerIdle
    /\ MmIdle
    /\ RtIdle

SpecRegistry == InitRegistry /\ [][RegistryNext]_vars

\* calculate_round_trip_cost on every drawn argument list.
RtNext ==
    \/ /\ CalculateRoundTripCost
       /\ UNCHANGED <<simVars, costVars, gradeVars, wfVars,
                         mainVars, metricsVars, feeVars, evtVars,
                         claimVars, trackerVars, breakerVars,
                         mmVars, registryVars>>

InitRt ==
    /\ RtInit
    /\ SimIdle
    /\ CostIdle
    /\ GradeIdle
    /\ WfIdle
    /\ MainIdle
    /\ MetricsIdle
    /\ FeeIdle
    /\ EvtIdle
    /\ ClaimIdle
    /\ TrackerIdle
    /\ BreakerIdle
    /\ MmIdle
    /\ RegistryIdle

SpecRt == InitRt /\ [][RtNext]_vars

=============================================================================
